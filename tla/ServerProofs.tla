---------------------------- MODULE ServerProofs ----------------------------
(***************************************************************************)
(* Theorems about Server, and about Accounts as the request threads of     *)
(* Server run it, for any number of clients, threads and descriptors.      *)
(***************************************************************************)
EXTENDS Server, TLAPS, WellFoundedInduction

(***************************************************************************)
(* The types of what a request's way through the server depends on.        *)
(***************************************************************************)
Label == Working \cup {"none", "start", "read", "wait", "close", "done"}

Texts == [of : Thread \cup {NULL}, text : {"none", "line", "query", "head", "word", "end"},
          pid : Pid]

Threads == [pc : Label, fd : Fd \cup {NULL}, on : Client \cup {NULL}, pid : Pid,
            rest : Texts, left : Nat]

NetType ==
  /\ asks \in [Client -> Request]
  /\ link \in [Client -> {"none", "waiting", "open", "over"}] /\ unread \in SUBSET Client
  /\ answers \in [Client -> Seq([to : Client \cup {NULL}, pid : Pid])]
  /\ fds \in [Fd -> Client \cup {NULL}] /\ NewSocket \in Fd \cup {NULL}
  /\ th \in [Thread -> Threads] /\ saved \in Texts

\* A thread that has taken a request out of the socket.
Past == Working \cup {"close"}

\* Descriptors and connections a thread goes by are real ones.
RefersOK ==
  /\ \A f \in Fd : fds[f] # NULL => link[fds[f]] # "none"
  /\ \A t \in Thread :
       /\ th[t].pc = "start" => NewSocket \in Fd
       /\ th[t].pc \in {"read", "wait"} \cup Past => th[t].fd \in Fd
       /\ th[t].pc \in {"wait"} \cup Past => th[t].on \in Client /\ link[th[t].on] # "none"

\* Nobody is answered before the request is read.
UnreadOK == \A c \in Client :
  /\ c \in unread => link[c] # "none" /\ answers[c] = <<>>
  /\ link[c] = "none" => answers[c] = <<>>

\* The descriptor of a thread that waits for a request that is there is still
\* that of the connection.
WaitOK == \A t \in Thread :
  th[t].pc = "wait" /\ th[t].on \in unread => fds[th[t].fd] = th[t].on

\* One thread has the request, and nobody else's Close took the descriptor.
HoldOK == \A t \in Thread : th[t].pc \in Past =>
  /\ th[t].on \notin unread /\ fds[th[t].fd] = th[t].on
  /\ th[t].pc \in Working => answers[th[t].on] = <<>>
  /\ \A s \in Thread : th[s].pc \in Past /\ th[s].on = th[t].on => s = t

IInv == NetType /\ RefersOK /\ UnreadOK /\ WaitOK /\ HoldOK /\ AnswersOwn

\* Less, on the natural numbers, as a relation; a set of them has a least one.
Less == {ss \in Nat \X Nat : ss[1] < ss[2]}

LEMMA LessWellFounded == IsWellFoundedOn(Less, Nat)
  BY NatLessThanWellFounded DEF OpToRel, Less

LEMMA Least == ASSUME NEW S, S \subseteq Nat, S # {} PROVE \E x \in S : \A y \in S : x =< y
<1>1. PICK x \in S : \A y \in S : <<y, x>> \notin Less
  BY LessWellFounded, WFMin
<1>2. ASSUME NEW y \in S, y < x PROVE FALSE
  <2>1. <<y, x>> \in Less
    BY <1>2 DEF Less
  <2> QED BY <2>1, <1>1
<1>3. \A y \in S : y \in Nat /\ x \in Nat
  OBVIOUS
<1> QED BY <1>2, <1>3

\* The lowest free descriptor is a free descriptor.
LEMMA LowestFree == ASSUME FreeFd # {} PROVE Min(FreeFd) \in FreeFd
<1>1. FreeFd \subseteq Nat
  BY ServerAssumption DEF FreeFd
<1> QED BY <1>1, Least DEF Min

\* What the steps do to a thread's record keeps its type.
LEMMA Put == ASSUME NEW f \in [Thread -> Threads], NEW t \in Thread, NEW r \in Threads
             PROVE  [f EXCEPT ![t] = r] \in [Thread -> Threads]
  OBVIOUS

LEMMA SetPc ==
  ASSUME th \in [Thread -> Threads], NEW t \in Thread, NEW pc \in Label
  PROVE  [th EXCEPT ![t].pc = pc] \in [Thread -> Threads]
<1>1. th[t] \in Threads
  OBVIOUS
<1>2. [th[t] EXCEPT !.pc = pc] \in Threads
  BY <1>1 DEF Threads
<1> QED BY <1>2, Put

LEMMA SetPcFd ==
  ASSUME th \in [Thread -> Threads], NEW t \in Thread, NEW pc \in Label, NEW fd \in Fd \cup {NULL}
  PROVE  [th EXCEPT ![t].pc = pc, ![t].fd = fd] \in [Thread -> Threads]
<1>1. th[t] \in Threads
  OBVIOUS
<1>2. [th[t] EXCEPT !.pc = pc, !.fd = fd] \in Threads
  BY <1>1 DEF Threads
<1> QED BY <1>2, Put

LEMMA SetOnPc ==
  ASSUME th \in [Thread -> Threads], NEW t \in Thread, NEW on \in Client \cup {NULL}, NEW pc \in Label
  PROVE  [th EXCEPT ![t].on = on, ![t].pc = pc] \in [Thread -> Threads]
<1>1. th[t] \in Threads
  OBVIOUS
<1>2. [th[t] EXCEPT !.on = on, !.pc = pc] \in Threads
  BY <1>1 DEF Threads
<1> QED BY <1>2, Put

LEMMA SetPcLeftPid ==
  ASSUME th \in [Thread -> Threads], NEW t \in Thread, NEW pc \in Label, NEW left \in Nat, NEW pid \in Pid
  PROVE  [th EXCEPT ![t].pc = pc, ![t].left = left, ![t].pid = pid] \in [Thread -> Threads]
<1>1. th[t] \in Threads
  OBVIOUS
<1>2. [th[t] EXCEPT !.pc = pc, !.left = left, !.pid = pid] \in Threads
  BY <1>1 DEF Threads
<1> QED BY <1>2, Put

LEMMA SetPcPidRest ==
  ASSUME th \in [Thread -> Threads], NEW t \in Thread, NEW pc \in Label, NEW pid \in Pid, NEW rest \in Texts
  PROVE  [th EXCEPT ![t].pc = pc, ![t].pid = pid, ![t].rest = rest] \in [Thread -> Threads]
<1>1. th[t] \in Threads
  OBVIOUS
<1>2. [th[t] EXCEPT !.pc = pc, !.pid = pid, !.rest = rest] \in Threads
  BY <1>1 DEF Threads
<1> QED BY <1>2, Put

LEMMA SetPcRest ==
  ASSUME th \in [Thread -> Threads], NEW t \in Thread, NEW pc \in Label, NEW rest \in Texts
  PROVE  [th EXCEPT ![t].pc = pc, ![t].rest = rest] \in [Thread -> Threads]
<1>1. th[t] \in Threads
  OBVIOUS
<1>2. [th[t] EXCEPT !.pc = pc, !.rest = rest] \in Threads
  BY <1>1 DEF Threads
<1> QED BY <1>2, Put

LEMMA SetLeft ==
  ASSUME th \in [Thread -> Threads], NEW t \in Thread, NEW left \in Nat
  PROVE  [th EXCEPT ![t].left = left] \in [Thread -> Threads]
<1>1. th[t] \in Threads
  OBVIOUS
<1>2. [th[t] EXCEPT !.left = left] \in Threads
  BY <1>1 DEF Threads
<1> QED BY <1>2, Put

LEMMA InitInv == Init => IInv
<1> SUFFICES ASSUME Init PROVE IInv
  OBVIOUS
<1>1. NoText \in Texts
  BY ServerAssumption DEF NoText, Texts, Pid
<1>2. Fresh \in Threads /\ Fresh.pc = "none"
  BY <1>1, ServerAssumption DEF Fresh, Threads, Label, Pid
<1>3. \A t \in Thread : th[t] = Fresh
  BY DEF Init
<1>4. NetType
  BY <1>1, <1>2, ServerAssumption DEF Init, NetType
<1>5. RefersOK /\ WaitOK /\ HoldOK
  BY <1>2, <1>3 DEF Init, RefersOK, WaitOK, HoldOK, Past, Working
<1>6. UnreadOK /\ AnswersOwn
  BY DEF Init, UnreadOK, AnswersOwn, Client
<1> QED BY <1>4, <1>5, <1>6 DEF IInv

\* Who connects was not known to any thread.
LEMMA ConnectInv == ASSUME IInv, NEW c \in Client, Connect(c) PROVE IInv'
<1>1. NetType'
  BY DEF Connect, IInv, NetType, parse
<1>2. RefersOK'
  BY DEF Connect, IInv, NetType, RefersOK, Past
<1>3. UnreadOK'
  BY DEF Connect, IInv, NetType, UnreadOK
<1>4. WaitOK'
  BY DEF Connect, IInv, NetType, RefersOK, WaitOK
<1>5. HoldOK'
  BY DEF Connect, IInv, NetType, RefersOK, HoldOK, Past
<1>6. AnswersOwn'
  BY DEF Connect, IInv, AnswersOwn
<1> QED BY <1>1, <1>2, <1>3, <1>4, <1>5, <1>6 DEF IInv

\* A client leaves.
LEMMA HangUpInv == ASSUME IInv, NEW c \in Client, HangUp(c) PROVE IInv'
<1>1. NetType'
  BY DEF HangUp, parse, IInv, NetType, Threads, Label, Working
<1>2. RefersOK'
  BY DEF HangUp, parse, IInv, NetType, Threads, RefersOK, Past, Working
<1>3. UnreadOK'
  BY DEF HangUp, parse, IInv, NetType, UnreadOK
<1>4. WaitOK'
  BY DEF HangUp, parse, IInv, NetType, Threads, WaitOK
<1>5. HoldOK'
  BY DEF HangUp, parse, IInv, NetType, Threads, HoldOK, Past, Working
<1>6. AnswersOwn'
  BY DEF HangUp, parse, IInv, AnswersOwn
<1> QED BY <1>1, <1>2, <1>3, <1>4, <1>5, <1>6 DEF IInv

\* The descriptor was nobody's, so no thread holds it for another connection.
LEMMA AcceptInv == ASSUME IInv, NEW c \in Client, Accept(c) PROVE IInv'
<1>1. PICK f \in Fd : /\ fds[f] = NULL /\ NewSocket' = f
                      /\ fds' = [fds EXCEPT ![f] = c]
  BY LowestFree DEF Accept, FreeFd
<1>2. c \in Thread /\ c # NULL
  BY ServerAssumption DEF Client
<1>3. th' = [th EXCEPT ![c].pc = "start"] /\ th' \in [Thread -> Threads]
  <2>1. "start" \in Label
    BY DEF Label
  <2> QED BY <1>2, <2>1, SetPc DEF Accept, Become, IInv, NetType
<1>4. \A t \in Thread : /\ th'[t].fd = th[t].fd /\ th'[t].on = th[t].on
                        /\ th'[t].pc = IF t = c THEN "start" ELSE th[t].pc
  BY <1>3 DEF IInv, NetType, Threads
<1>5. link' = [link EXCEPT ![c] = "open"] /\ UNCHANGED <<asks, unread, answers, saved>>
  BY DEF Accept, parse
<1>6. NetType'
  BY <1>1, <1>3, <1>5 DEF IInv, NetType
<1>7. RefersOK'
  BY ZenonT(40), <1>1, <1>2, <1>4, <1>5 DEF IInv, NetType, RefersOK, Past, Working
<1>8. UnreadOK'
  BY <1>5 DEF Accept, IInv, NetType, UnreadOK
<1>9. \A t \in Thread : th'[t].pc \in {"wait"} \cup Past => t # c /\ th[t].pc = th'[t].pc /\ th[t].fd \in Fd
  BY <1>4 DEF IInv, RefersOK, Past, Working
<1>10. \A t \in Thread : fds[th[t].fd] = th[t].on /\ th[t].on \in Client => th[t].fd # f
  BY <1>1, ServerAssumption DEF Client
<1>11. WaitOK'
  BY ZenonT(40), <1>1, <1>4, <1>5, <1>9, <1>10 DEF IInv, NetType, RefersOK, WaitOK
<1>12. HoldOK'
  <2>1. ASSUME NEW t \in Thread, th'[t].pc \in Past
        PROVE  /\ th[t].pc \in Past /\ th'[t].pc = th[t].pc /\ th'[t].on = th[t].on
               /\ th'[t].fd = th[t].fd /\ th[t].fd \in Fd /\ th[t].on \in Client
    BY <2>1, <1>4, <1>9 DEF IInv, RefersOK
  <2>2. ASSUME NEW t \in Thread, th'[t].pc \in Past
        PROVE  /\ th'[t].on \notin unread' /\ fds'[th'[t].fd] = th'[t].on
               /\ th'[t].pc \in Working => answers'[th'[t].on] = <<>>
    <3>1. th[t].on \notin unread /\ fds[th[t].fd] = th[t].on
      BY <2>1, <2>2 DEF IInv, HoldOK
    <3>2. th[t].pc \in Working => answers[th[t].on] = <<>>
      BY <2>1, <2>2 DEF IInv, HoldOK
    <3>3. th[t].fd # f
      BY <3>1, <2>1, <2>2, <1>10
    <3>4. fds'[th[t].fd] = fds[th[t].fd]
      BY <3>3, <2>1, <2>2, <1>1 DEF IInv, NetType
    <3> QED BY <3>1, <3>2, <3>4, <2>1, <2>2, <1>5
  <2>3. ASSUME NEW t \in Thread, NEW s \in Thread, th'[t].pc \in Past,
               th'[s].pc \in Past, th'[s].on = th'[t].on
        PROVE  s = t
    <3>1. th[t].pc \in Past /\ th[s].pc \in Past /\ th[s].on = th[t].on
      BY <2>1, <2>3
    <3> QED BY <3>1 DEF IInv, HoldOK
  <2> QED BY <2>2, <2>3 DEF HoldOK
<1>13. AnswersOwn'
  BY <1>5 DEF IInv, AnswersOwn
<1> QED BY <1>6, <1>7, <1>8, <1>11, <1>12, <1>13 DEF IInv

\* NewSocket has been set since the first connection.
LEMMA FetchInv == ASSUME IInv, NEW t \in Thread, Fetch(t) PROVE IInv'
<1>1. NetType'
  <2>1. "read" \in Label
    BY DEF Label
  <2>2. th' \in [Thread -> Threads]
    BY <2>1, SetPcFd DEF Fetch, IInv, NetType
  <2> QED BY <2>2 DEF Fetch, net, parse, IInv, NetType
<1>2. RefersOK'
  BY DEF Fetch, At, net, parse, IInv, NetType, Threads, RefersOK, Past, Working
<1>3. UnreadOK'
  BY DEF Fetch, At, net, parse, IInv, NetType, UnreadOK
<1>4. WaitOK'
  BY DEF Fetch, At, net, parse, IInv, NetType, Threads, WaitOK
<1>5. HoldOK'
  BY DEF Fetch, At, net, parse, IInv, NetType, Threads, HoldOK, Past, Working
<1>6. AnswersOwn'
  BY DEF Fetch, At, net, parse, IInv, AnswersOwn
<1> QED BY <1>1, <1>2, <1>3, <1>4, <1>5, <1>6 DEF IInv

\* The thread waits on the descriptor's connection.
LEMMA ReadInv == ASSUME IInv, NEW t \in Thread, Read(t) PROVE IInv'
<1>1. NetType'
  <2>1. {"done", "wait"} \subseteq Label
    BY DEF Label
  <2>2. fds[th[t].fd] \in Client \cup {NULL}
    BY DEF Read, At, IInv, NetType, RefersOK
  <2>3. PICK pc \in {"done", "wait"} : th' = [th EXCEPT ![t].on = fds[th[t].fd], ![t].pc = pc]
    BY DEF Read
  <2>4. th' \in [Thread -> Threads]
    BY <2>1, <2>2, <2>3, SetOnPc DEF IInv, NetType
  <2> QED BY <2>4 DEF Read, net, parse, IInv, NetType
<1>2. RefersOK'
  BY DEF Read, At, net, parse, IInv, NetType, Threads, RefersOK, Past, Working
<1>3. UnreadOK'
  BY DEF Read, At, net, parse, IInv, NetType, UnreadOK
<1>4. WaitOK'
  BY DEF Read, At, net, parse, IInv, NetType, Threads, WaitOK
<1>5. HoldOK'
  BY DEF Read, At, net, parse, IInv, NetType, Threads, HoldOK, Past, Working
<1>6. AnswersOwn'
  BY DEF Read, At, net, parse, IInv, AnswersOwn
<1> QED BY <1>1, <1>2, <1>3, <1>4, <1>5, <1>6 DEF IInv

\* The request is in the socket once, so one thread gets it.
LEMMA ReceiveInv == ASSUME IInv, NEW t \in Thread, Receive(t) PROVE IInv'
<1>1. NetType'
  <2>1. "first" \in Label
    BY DEF Label, Working
  <2>2. th' \in [Thread -> Threads]
    BY <2>1, SetPc DEF Receive, Become, IInv, NetType
  <2> QED BY <2>2 DEF Receive, parse, IInv, NetType
<1>2. RefersOK'
  BY DEF Receive, At, Become, parse, IInv, NetType, Threads, RefersOK, Past, Working
<1>3. UnreadOK'
  BY DEF Receive, At, Become, parse, IInv, NetType, UnreadOK
<1>4. WaitOK'
  BY DEF Receive, At, Become, parse, IInv, NetType, Threads, WaitOK
<1>5. HoldOK'
  BY DEF Receive, At, Become, parse, IInv, NetType, Threads, HoldOK, Past, Working, RefersOK, UnreadOK, WaitOK
<1>6. AnswersOwn'
  BY DEF Receive, At, Become, parse, IInv, AnswersOwn
<1> QED BY <1>1, <1>2, <1>3, <1>4, <1>5, <1>6 DEF IInv

\* The thread ends.
LEMMA EmptyInv == ASSUME IInv, NEW t \in Thread, Empty(t) PROVE IInv'
<1>1. NetType'
  <2>1. "done" \in Label
    BY DEF Label, Working
  <2>2. th' \in [Thread -> Threads]
    BY <2>1, SetPc DEF Empty, Become, IInv, NetType
  <2> QED BY <2>2 DEF Empty, net, parse, IInv, NetType
<1>2. RefersOK'
  BY DEF Empty, At, Become, net, parse, IInv, NetType, Threads, RefersOK, Past, Working
<1>3. UnreadOK'
  BY DEF Empty, At, Become, net, parse, IInv, NetType, UnreadOK
<1>4. WaitOK'
  BY DEF Empty, At, Become, net, parse, IInv, NetType, Threads, WaitOK
<1>5. HoldOK'
  BY DEF Empty, At, Become, net, parse, IInv, NetType, Threads, HoldOK, Past, Working
<1>6. AnswersOwn'
  BY DEF Empty, At, Become, net, parse, IInv, AnswersOwn
<1> QED BY <1>1, <1>2, <1>3, <1>4, <1>5, <1>6 DEF IInv

\* A number that strtok may give is one a Pid can be, or none.
LEMMA NumberOK == ASSUME NEW x \in Texts, NEW n \in Number(x), n # NULL PROVE n \in Pid
<1>1. 0 \in Pid
  BY ServerAssumption DEF Pid
<1> QED BY <1>1 DEF Number, Texts

\* What a thread stores as strtok's position.
LEMMA LeftOK == ASSUME NEW t \in Thread, NEW pid \in Pid,
                       NEW text \in {"none", "line", "query", "head", "word", "end"}
                PROVE  Left(t, text, pid) \in Texts
  BY DEF Left, Texts

\* A thread goes on with its request and keeps the descriptor.
LEMMA GoesOn == ASSUME IInv, NEW t \in Thread, th[t].pc \in Working, th'[t].pc \in Working,
                       UNCHANGED net, saved' \in Texts, th' \in [Thread -> Threads],
                       \A s \in Thread : /\ th'[s].fd = th[s].fd /\ th'[s].on = th[s].on
                                         /\ s # t => th'[s].pc = th[s].pc
                PROVE  IInv'
<1>1. \A s \in Thread : /\ th'[s].pc \in Past <=> th[s].pc \in Past
                        /\ th'[s].pc \in Working <=> th[s].pc \in Working
                        /\ th'[s].pc = th[s].pc \/ (th'[s].pc \in Past /\ th[s].pc \in Past)
  BY DEF Past
<1>2. \A s \in Thread : th[s].pc \in Past => th[s].pc \notin {"start", "read", "wait"}
  BY DEF Past, Working
<1>3. \A s \in Thread : th'[s].pc \in Past => th'[s].pc \notin {"start", "read", "wait"}
  BY DEF Past, Working
<1>4. NetType'
  BY DEF IInv, NetType, net
<1>5. RefersOK'
  BY <1>1, <1>2, <1>3 DEF IInv, RefersOK, net
<1>6. UnreadOK'
  BY DEF IInv, UnreadOK, net
<1>7. WaitOK'
  BY <1>1, <1>2, <1>3 DEF IInv, WaitOK, net
<1>8. HoldOK'
  BY <1>1 DEF IInv, HoldOK, net
<1>9. AnswersOwn'
  BY DEF IInv, AnswersOwn, net
<1> QED BY <1>4, <1>5, <1>6, <1>7, <1>8, <1>9 DEF IInv

LEMMA FirstInv == ASSUME IInv, NEW t \in Thread, First(t) PROVE IInv'
<1>1. th' \in [Thread -> Threads]
  <2>1. "second" \in Label
    BY DEF Label, Working
  <2> QED BY <2>1, SetPc DEF First, Become, IInv, NetType
<1>2. saved' \in Texts
  BY LeftOK, ServerAssumption DEF First, Store, Pid
<1>3. \A s \in Thread : /\ th'[s].fd = th[s].fd /\ th'[s].on = th[s].on
                        /\ s # t => th'[s].pc = th[s].pc
  BY DEF First, At, Become, IInv, NetType, Threads
<1>4. th[t].pc \in Working /\ th'[t].pc \in Working
  BY DEF First, At, Become, IInv, NetType, Threads, Working
<1> QED BY <1>1, <1>2, <1>3, <1>4, GoesOn DEF First

LEMMA SecondInv == ASSUME IInv, NEW t \in Thread, Second(t) PROVE IInv'
<1> DEFINE ask == Ask(t)
<1>1. ask \in Request
  <2>1. th[t].on \in Client
    BY DEF Second, At, IInv, RefersOK, Past, Working
  <2> QED BY <2>1 DEF Ask, IInv, NetType
<1>2. ask.kind \in {"poll", "key", "create"} => ask.pid \in Pid
  BY <1>1 DEF Request
<1>3. 0 \in Pid /\ Cuts(ask) \in Nat
  BY ServerAssumption DEF Pid, Cuts
<1>4. saved' \in Texts
  <2>1. Behind(ask)[1] \in {"query", "head"} /\ Behind(ask)[2] \in Pid
    BY <1>2, <1>3 DEF Behind
  <2> QED BY <2>1, LeftOK DEF Second, Store
<1>5. PICK pc \in {"third", "account", "cut"}, pid \in Pid, left \in Nat :
        th' = [th EXCEPT ![t].pc = pc, ![t].left = left, ![t].pid = pid]
  <2> DEFINE pc == IF Get(ask) THEN "third"
                   ELSE IF ask.kind \in {"register", "login"} THEN "account" ELSE "cut"
             pid == IF ask.kind \in {"key", "create"} THEN ask.pid ELSE 0
  <2>1. pc \in {"third", "account", "cut"} /\ pid \in Pid
    BY <1>2, <1>3
  <2>2. th' = [th EXCEPT ![t].pc = pc, ![t].left = Cuts(ask), ![t].pid = pid]
    BY SMTT(30) DEF Second
  <2> HIDE DEF pc, pid
  <2> QED BY <2>1, <2>2, <1>3
<1>6. th' \in [Thread -> Threads]
  <2>1. {"third", "account", "cut"} \subseteq Label
    BY DEF Label, Working
  <2> QED BY <1>5, <2>1, SetPcLeftPid DEF IInv, NetType
<1>7. \A s \in Thread : /\ th'[s].fd = th[s].fd /\ th'[s].on = th[s].on
                        /\ s # t => th'[s].pc = th[s].pc
  BY <1>5 DEF IInv, NetType, Threads
<1>8. th[t].pc \in Working /\ th'[t].pc \in Working
  BY <1>5 DEF Second, At, IInv, NetType, Threads, Working
<1> QED BY <1>4, <1>6, <1>7, <1>8, GoesOn DEF Second

LEMMA ThirdInv == ASSUME IInv, NEW t \in Thread, Third(t) PROVE IInv'
<1>1. saved' \in Texts /\ UNCHANGED net
  BY DEF Third, IInv, NetType, parse
<1>2. PICK n \in Number(saved) :
        IF n = NULL THEN up' = FALSE /\ UNCHANGED th
        ELSE /\ th' = [th EXCEPT ![t].pc = "rest", ![t].pid = n,
                         ![t].rest = Left(saved.of, IF saved.text = "word" THEN "end" ELSE "head", 0)]
             /\ UNCHANGED up
  BY DEF Third
<1>3. CASE n = NULL
  <2>1. UNCHANGED th
    BY <1>2, <1>3
  <2>2. th[t].pc \in Working /\ th \in [Thread -> Threads]
    BY DEF Third, At, Working, IInv, NetType
  <2> QED BY <1>1, <2>1, <2>2, GoesOn
<1>4. CASE n # NULL
  <2> DEFINE rest == Left(saved.of, IF saved.text = "word" THEN "end" ELSE "head", 0)
  <2>1. rest \in Texts /\ n \in Pid
    <3>1. saved.of \in Thread \cup {NULL} /\ saved \in Texts
      BY DEF IInv, NetType, Texts
    <3>2. 0 \in Pid
      BY ServerAssumption DEF Pid
    <3> QED BY <1>4, <3>1, <3>2, NumberOK DEF Left, Texts
  <2>2. th' = [th EXCEPT ![t].pc = "rest", ![t].pid = n, ![t].rest = rest]
    BY SMTT(30), <1>2, <1>4
  <2> HIDE DEF rest
  <2>3. th' \in [Thread -> Threads]
    <3>1. "rest" \in Label
      BY DEF Label, Working
    <3> QED BY <2>1, <2>2, <3>1, SetPcPidRest DEF IInv, NetType
  <2>4. \A s \in Thread : /\ th'[s].fd = th[s].fd /\ th'[s].on = th[s].on
                          /\ s # t => th'[s].pc = th[s].pc
    BY <2>2 DEF IInv, NetType, Threads
  <2>5. th[t].pc \in Working /\ th'[t].pc \in Working
    BY <2>2 DEF Third, At, IInv, NetType, Threads, Working
  <2> QED BY <1>1, <2>3, <2>4, <2>5, GoesOn
<1> QED BY <1>3, <1>4

LEMMA RestInv == ASSUME IInv, NEW t \in Thread, Rest(t) PROVE IInv'
<1>1. NoText \in Texts
  BY ServerAssumption DEF NoText, Texts, Pid
<1>2. th' \in [Thread -> Threads]
  <2>1. "cut" \in Label
    BY DEF Label, Working
  <2> QED BY <1>1, <2>1, SetPcRest DEF Rest, IInv, NetType
<1>3. saved' \in Texts
  BY DEF Rest, Store, IInv, NetType, Threads
<1>4. \A s \in Thread : /\ th'[s].fd = th[s].fd /\ th'[s].on = th[s].on
                        /\ s # t => th'[s].pc = th[s].pc
  BY DEF Rest, IInv, NetType, Threads
<1>5. th[t].pc \in Working /\ th'[t].pc \in Working
  BY DEF Rest, At, IInv, NetType, Threads, Working
<1> QED BY <1>2, <1>3, <1>4, <1>5, GoesOn DEF Rest

LEMMA CutInv == ASSUME IInv, NEW t \in Thread, Cut(t) PROVE IInv'
<1>1. th' \in [Thread -> Threads]
  <2>1. th[t].left \in Nat
    BY DEF IInv, NetType, Threads
  <2>2. th[t].left - 1 \in Nat
    BY <2>1 DEF Cut
  <2>3. th' = [th EXCEPT ![t].left = th[t].left - 1]
    BY DEF Cut
  <2> QED BY <2>2, <2>3, SetLeft DEF IInv, NetType
<1>2. saved' \in Texts
  BY LeftOK, ServerAssumption DEF Cut, Store, Pid
<1>3. \A s \in Thread : /\ th'[s].fd = th[s].fd /\ th'[s].on = th[s].on
                        /\ th'[s].pc = th[s].pc
  BY DEF Cut, IInv, NetType, Threads
<1>4. th[t].pc \in Working /\ th'[t].pc \in Working
  BY <1>3 DEF Cut, At, Working
<1> QED BY <1>1, <1>2, <1>3, <1>4, GoesOn DEF Cut

\* What Register and Login change is their own.
LEMMA AccountInv == ASSUME IInv, NEW t \in Thread, Account(t) PROVE IInv'
<1>1. UNCHANGED <<net, th>> /\ th[t].pc \in Working
  BY DEF Account, At, Working
<1>2. saved' \in Texts
  <2>1. Left(t, "word", 0) \in Texts
    BY LeftOK, ServerAssumption DEF Pid
  <2> QED BY <2>1 DEF Account, Store, parse, IInv, NetType
<1>3. th \in [Thread -> Threads]
  BY DEF IInv, NetType
<1> QED BY <1>1, <1>2, <1>3, GoesOn

\* The descriptor is still that of the connection.
LEMMA RespondInv == ASSUME IInv, NEW t \in Thread, Respond(t) PROVE IInv'
<1> DEFINE c == th[t].on
           answer == [to |-> c, pid |-> th[t].pid]
<1>1. /\ th[t] \in Threads /\ th[t].pc \in Working /\ c \in Client
      /\ fds[th[t].fd] = c /\ answers[c] = <<>> /\ c \notin unread /\ link[c] # "none"
  BY DEF Respond, Ready, At, IInv, NetType, RefersOK, HoldOK, Past, Working
<1>2. answers' = answers \/ answers' = [answers EXCEPT ![c] = Append(@, answer)]
  BY <1>1 DEF Respond
<1>3. th' = [th EXCEPT ![t].pc = "close"] /\ th' \in [Thread -> Threads]
  <2>1. "close" \in Label
    BY DEF Label
  <2> QED BY <2>1, SetPc DEF Respond, Become, IInv, NetType
<1>4. \A s \in Thread : /\ th'[s].fd = th[s].fd /\ th'[s].on = th[s].on
                        /\ th'[s].pc = IF s = t THEN "close" ELSE th[s].pc
  BY <1>3 DEF IInv, NetType, Threads
<1>5. UNCHANGED <<asks, link, unread, fds, NewSocket, saved>>
  BY DEF Respond, parse
<1>6. answer \in [to : Client \cup {NULL}, pid : Pid]
  BY <1>1 DEF Threads
<1>7. /\ answers' \in [Client -> Seq([to : Client \cup {NULL}, pid : Pid])]
      /\ \A d \in Client : d # c => answers'[d] = answers[d]
      /\ answers'[c] = <<>> \/ answers'[c] = <<answer>>
  <2> HIDE DEF answer
  <2>1. CASE answers' = answers
    BY <2>1, <1>1 DEF IInv, NetType
  <2>2. CASE answers' = [answers EXCEPT ![c] = Append(@, answer)]
    <3>1. Append(answers[c], answer) = <<answer>>
      BY <1>1
    <3>2. <<answer>> \in Seq([to : Client \cup {NULL}, pid : Pid])
      BY <1>6
    <3>3. answers' = [answers EXCEPT ![c] = <<answer>>]
      BY <2>2, <3>1
    <3> QED BY <3>2, <3>3, <1>1 DEF IInv, NetType
  <2> QED BY <1>2, <2>1, <2>2
<1>8. NetType'
  BY <1>3, <1>5, <1>7 DEF IInv, NetType
<1>9. RefersOK'
  BY <1>1, <1>4, <1>5 DEF IInv, RefersOK, Past, Working
<1>10. UnreadOK'
  BY <1>1, <1>5, <1>7 DEF IInv, UnreadOK
<1>11. WaitOK'
  BY <1>4, <1>5 DEF IInv, WaitOK
<1>12. \A s \in Thread : /\ th'[s].pc \in Past <=> th[s].pc \in Past
                         /\ th'[s].pc \in Working => s # t /\ th[s].pc \in Working /\ th[s].pc \in Past
  BY <1>1, <1>4 DEF Past, Working
<1>13. th[t].pc \in Past
  BY <1>1 DEF Past
<1>14. HoldOK'
  BY <1>4, <1>5, <1>7, <1>12, <1>13 DEF IInv, RefersOK, HoldOK
<1>15. AnswersOwn'
  <2>1. \A d \in Client : d # c => Len(answers'[d]) <= 1 /\ \A i \in DOMAIN answers'[d] : answers'[d][i].to = d
    BY <1>7 DEF IInv, AnswersOwn
  <2>2. Len(answers'[c]) <= 1 /\ \A i \in DOMAIN answers'[c] : answers'[c][i].to = c
    <3>1. CASE answers'[c] = <<>>
      BY <3>1
    <3>2. CASE answers'[c] = <<answer>>
      <4>1. answer.to = c
        OBVIOUS
      <4> HIDE DEF answer
      <4> QED BY <3>2, <4>1
    <3> QED BY <1>7, <3>1, <3>2
  <2> QED BY <2>1, <2>2 DEF AnswersOwn
<1> QED BY <1>8, <1>9, <1>10, <1>11, <1>14, <1>15 DEF IInv

\* No other thread has a request on that descriptor.
LEMMA CloseInv == ASSUME IInv, NEW t \in Thread, Close(t) PROVE IInv'
<1>1. NetType'
  <2>1. "done" \in Label
    BY DEF Label, Working
  <2>2. th' \in [Thread -> Threads]
    BY <2>1, SetPc DEF Close, Become, IInv, NetType
  <2> QED BY <2>2 DEF Close, parse, IInv, NetType
<1>2. RefersOK'
  BY DEF Close, At, Become, parse, IInv, NetType, Threads, RefersOK, Past, Working
<1>3. UnreadOK'
  BY DEF Close, At, Become, parse, IInv, NetType, UnreadOK
<1>4. WaitOK'
  BY DEF Close, At, Become, parse, IInv, NetType, Threads, WaitOK, HoldOK, Past, RefersOK
<1>5. HoldOK'
  BY DEF Close, At, Become, parse, IInv, NetType, Threads, HoldOK, Past, Working
<1>6. AnswersOwn'
  BY DEF Close, At, Become, parse, IInv, AnswersOwn
<1> QED BY <1>1, <1>2, <1>3, <1>4, <1>5, <1>6 DEF IInv

(***************************************************************************)
(* The invariant holds, whatever threads, descriptors and requests there   *)
(* are: a connection's descriptor is its own from accept to close, though  *)
(* threads may fetch one another's (libemunet.c:49-76, 105-126).           *)
(***************************************************************************)
THEOREM Invariant == Spec => []IInv
<1>1. IInv /\ [Next]_vars => IInv'
  <2> SUFFICES ASSUME IInv, [Next]_vars PROVE IInv'
    OBVIOUS
  <2>1. ASSUME NEW c \in Client, Connect(c) \/ HangUp(c) PROVE IInv'
    BY <2>1, ConnectInv, HangUpInv
  <2>2. CASE Listen
    <3>1. CASE Exit
      BY <3>1 DEF Exit, net, parse, IInv, NetType, RefersOK, UnreadOK, WaitOK, HoldOK, AnswersOwn
    <3> QED BY <2>2, <3>1, AcceptInv DEF Listen
  <2>3. ASSUME NEW t \in Thread, Handle(t) PROVE IInv'
    BY <2>3, FetchInv, ReadInv, ReceiveInv, EmptyInv, FirstInv, SecondInv, ThirdInv, RestInv,
       CutInv, AccountInv, RespondInv, CloseInv DEF Handle
  <2>4. CASE UNCHANGED vars
    BY <2>4 DEF vars, net, parse, IInv, NetType, RefersOK, UnreadOK, WaitOK, HoldOK, AnswersOwn
  <2> QED BY <2>1, <2>2, <2>3, <2>4 DEF Next
<1> QED BY InitInv, <1>1, PTL DEF Spec

(***************************************************************************)
(* Every answer goes to the client whose request it answers, and no client *)
(* gets two, for any number of clients, descriptors and Pids               *)
(* (libemunet.c:49-76, 119).                                               *)
(***************************************************************************)
THEOREM AnswersOwnAlways == Spec => []AnswersOwn
<1>1. IInv => AnswersOwn
  BY DEF IInv
<1> QED BY Invariant, <1>1, PTL
-----------------------------------------------------------------------------
(***************************************************************************)
(* The Pid a poll is answered for.                                         *)
(***************************************************************************)

\* A thread is started once, and no other comes between before it runs.
StartOK ==
  /\ \A c \in Client : link[c] \in {"none", "waiting"} => th[c].pc = "none"
  /\ crossed \in SUBSET Thread
  /\ \A t \in crossed : th[t].pc \notin {"none", "start", "read"}

\* What a thread is at when no other has called strtok: at its third call
\* the position is in its own text, and then it has the Pid asked for.
OnCourse(t) ==
  /\ th[t].pc = "third" => /\ Get(Ask(t))
                           /\ Ask(t).kind = "poll" => saved = Left(t, "query", Ask(t).pid)
  /\ th[t].pc = "rest" => Get(Ask(t))
  /\ th[t].pc \in {"rest", "cut"} /\ Ask(t).kind \in {"poll", "key"} => th[t].pid = Ask(t).pid
  /\ th[t].pc = "account" => Ask(t).kind \in {"register", "login"}

AskInv == StartOK /\ AskedPid /\ \A t \in Thread : t \notin crossed => OnCourse(t)

\* A step of one thread leaves the others on course, or has crossed them.
LEMMA OthersOnCourse ==
  ASSUME AskInv, NEW t \in Thread, UNCHANGED asks, \A s \in Thread : s # t => th'[s] = th[s],
         UNCHANGED parse \/ \E x : Store(t, x), t \notin crossed' => OnCourse(t)'
  PROVE  \A s \in Thread : s \notin crossed' => OnCourse(s)'
<1> SUFFICES ASSUME NEW s \in Thread, s \notin crossed', s # t PROVE OnCourse(s)'
  OBVIOUS
<1>1. s \notin crossed /\ th'[s] = th[s] /\ Ask(s)' = Ask(s)
  BY DEF Store, parse, Ask
<1>2. OnCourse(s)
  BY <1>1 DEF AskInv
<1>3. th[s].pc = "third" => UNCHANGED parse
  BY DEF Store
<1> QED BY <1>1, <1>2, <1>3 DEF OnCourse, parse

\* A step of one thread that has been started, and gives no answer.
LEMMA StepsOn ==
  ASSUME IInv, AskInv, NEW t \in Thread, UNCHANGED <<asks, link, answers>>,
         \A s \in Thread : s # t => th'[s] = th[s],
         UNCHANGED parse \/ \E x : Store(t, x), t \notin crossed' => OnCourse(t)',
         th[t].pc # "none", th'[t].pc \notin {"none", "start", "read"} \/ th[t].pc = "start",
         th'[t].on = th[t].on \/ th[t].pc = "read"
  PROVE  AskInv'
<1>1. \A s \in Thread : s \notin crossed' => OnCourse(s)'
  BY OthersOnCourse
<1>2. /\ crossed \subseteq crossed' /\ crossed' \in SUBSET Thread
      /\ \A s \in crossed' : s \in crossed \/ (s # t /\ th[s].pc = "third")
  BY DEF AskInv, StartOK, parse, Store
<1>3. \A s \in crossed : s \in Thread /\ th[s].pc \notin {"none", "start", "read"}
  BY DEF AskInv, StartOK
<1>4. StartOK'
  <2>1. \A c \in Client : link'[c] \in {"none", "waiting"} => th'[c].pc = "none"
    BY DEF AskInv, StartOK, Client
  <2>2. \A s \in crossed' : th'[s].pc \notin {"none", "start", "read"}
    BY <1>2, <1>3
  <2> QED BY <1>2, <2>1, <2>2 DEF StartOK
<1>5. \A s \in crossed : s \in crossed' /\ th'[s].on = th[s].on
  BY <1>2, <1>3
<1>6. AskedPid'
  BY <1>5 DEF AskInv, AskedPid
<1> QED BY <1>1, <1>4, <1>6 DEF AskInv

LEMMA InitAsk == Init => AskInv
<1> SUFFICES ASSUME Init PROVE AskInv
  OBVIOUS
<1>1. \A t \in Thread : th[t].pc = "none"
  BY DEF Init, Fresh
<1>2. StartOK
  BY <1>1 DEF Init, StartOK, Client
<1>3. AskedPid
  BY DEF Init, AskedPid
<1>4. \A t \in Thread : OnCourse(t)
  BY <1>1 DEF OnCourse
<1> QED BY <1>2, <1>3, <1>4 DEF AskInv

\* Connections that come and go; the descriptors do not matter.
LEMMA LinkAsk == ASSUME IInv, AskInv, NEW c \in Client, Connect(c) \/ HangUp(c) PROVE AskInv'
<1>1. UNCHANGED <<asks, answers, th, parse>>
  BY DEF Connect, HangUp
<1>2. \A d \in Client : link'[d] \in {"none", "waiting"} => link[d] \in {"none", "waiting"}
  BY DEF Connect, HangUp, IInv, NetType
<1>3. StartOK'
  BY <1>1, <1>2 DEF AskInv, StartOK, parse
<1>4. AskedPid'
  BY <1>1 DEF AskInv, AskedPid, parse
<1>5. \A t \in Thread : t \notin crossed' => OnCourse(t)'
  BY <1>1 DEF AskInv, OnCourse, Ask, parse
<1> QED BY <1>3, <1>4, <1>5 DEF AskInv

\* The thread had not been started.
LEMMA AcceptAsk == ASSUME IInv, AskInv, NEW c \in Client, Accept(c) PROVE AskInv'
<1>1. c \in Thread /\ th' = [th EXCEPT ![c].pc = "start"] /\ UNCHANGED <<asks, answers, parse>>
  BY DEF Accept, Become, Client
<1>2. \A s \in Thread : /\ s # c => th'[s] = th[s]
                        /\ th'[s].on = th[s].on
                        /\ s = c => th'[s].pc = "start"
  BY <1>1 DEF IInv, NetType, Threads
<1>3. c \notin crossed
  <2>1. th[c].pc = "none"
    BY DEF Accept, AskInv, StartOK
  <2> QED BY <2>1 DEF AskInv, StartOK
<1>4. link' = [link EXCEPT ![c] = "open"] /\ link \in [Client -> {"none", "waiting", "open", "over"}]
  BY DEF Accept, IInv, NetType
<1>5. StartOK'
  <2>1. \A d \in Client : link'[d] \in {"none", "waiting"} => th'[d].pc = "none"
    BY <1>2, <1>4 DEF AskInv, StartOK, Client
  <2>2. \A s \in crossed : th'[s].pc \notin {"none", "start", "read"}
    BY <1>2, <1>3 DEF AskInv, StartOK
  <2> QED BY <1>1, <2>1, <2>2 DEF AskInv, StartOK, parse
<1>6. AskedPid'
  BY <1>1, <1>2 DEF AskInv, StartOK, AskedPid, parse
<1>7. OnCourse(c)'
  BY <1>1, <1>2 DEF OnCourse
<1>8. \A s \in Thread : s \notin crossed' => OnCourse(s)'
  BY <1>1, <1>2, <1>7, OthersOnCourse
<1> QED BY <1>5, <1>6, <1>8 DEF AskInv

\* The steps up to the first strtok, and the last.
LEMMA EdgeAsk ==
  ASSUME IInv, AskInv, NEW t \in Thread,
         Fetch(t) \/ Read(t) \/ Receive(t) \/ Empty(t) \/ First(t) \/ Close(t)
  PROVE  AskInv'
<1>1. UNCHANGED <<asks, link, answers>> /\ (UNCHANGED parse \/ \E x : Store(t, x))
  BY DEF Fetch, Read, Receive, Empty, First, Close, net
<1>2. \A s \in Thread : s # t => th'[s] = th[s]
  BY DEF Fetch, Read, Receive, Empty, First, Close, Become, IInv, NetType
<1>3. th'[t].pc \in {"read", "wait", "first", "second", "done"}
  BY DEF Fetch, Read, Receive, Empty, First, Close, Become, IInv, NetType, Threads
<1>4. OnCourse(t)'
  BY <1>3 DEF OnCourse
<1>5. th[t].pc # "none" /\ (th'[t].pc \notin {"none", "start", "read"} \/ th[t].pc = "start")
  BY DEF Fetch, Read, Receive, Empty, First, Close, Become, At, IInv, NetType, Threads
<1>6. th'[t].on = th[t].on \/ th[t].pc = "read"
  BY DEF Fetch, Read, Receive, Empty, First, Close, Become, At, IInv, NetType, Threads
<1> QED BY <1>1, <1>2, <1>4, <1>5, <1>6, StepsOn

LEMMA SecondAsk == ASSUME IInv, AskInv, NEW t \in Thread, Second(t) PROVE AskInv'
<1> DEFINE ask == Ask(t)
           pc == IF Get(ask) THEN "third"
                 ELSE IF ask.kind \in {"register", "login"} THEN "account" ELSE "cut"
           pid == IF ask.kind \in {"key", "create"} THEN ask.pid ELSE 0
<1>1. th' = [th EXCEPT ![t].pc = pc, ![t].left = Cuts(ask), ![t].pid = pid]
  BY DEF Second
<1>2. /\ \A s \in Thread : s # t => th'[s] = th[s]
      /\ th'[t].pc = pc /\ th'[t].pid = pid /\ th'[t].on = th[t].on
  <2> HIDE DEF pc, pid, ask
  <2> QED BY <1>1 DEF IInv, NetType, Threads
<1>3. UNCHANGED <<asks, link, answers>> /\ th[t].pc = "second"
  BY DEF Second, net, At
<1>4. Store(t, Left(t, Behind(ask)[1], Behind(ask)[2]))
  BY DEF Second
<1>5. Ask(t)' = ask
  BY <1>2, <1>3 DEF Ask
<1>6. OnCourse(t)'
  <2>1. pc = "third" => Get(ask)
    OBVIOUS
  <2>2. ask.kind = "poll" => saved' = Left(t, "query", ask.pid)
    BY <1>4 DEF Store, Behind
  <2>3. pc # "rest"
    OBVIOUS
  <2>4. pc = "cut" /\ ask.kind \in {"poll", "key"} => pid = ask.pid
    BY DEF Get
  <2>5. pc = "account" => ask.kind \in {"register", "login"}
    OBVIOUS
  <2> HIDE DEF pc, pid, ask
  <2> QED BY <1>2, <1>5, <2>1, <2>2, <2>3, <2>4, <2>5 DEF OnCourse
<1>7. pc \notin {"none", "start", "read"}
  OBVIOUS
<1> HIDE DEF pc, pid, ask
<1> QED BY <1>2, <1>3, <1>4, <1>6, <1>7, StepsOn

\* The position is in the thread's own copy of the request, which is not freed.
LEMMA ThirdAsk == ASSUME IInv, AskInv, NEW t \in Thread, Third(t) PROVE AskInv'
<1>1. UNCHANGED <<asks, link, answers, parse>> /\ th[t].pc = "third"
  BY DEF Third, net, At
<1>2. PICK n \in Number(saved) :
        IF n = NULL THEN up' = FALSE /\ UNCHANGED th
        ELSE /\ th' = [th EXCEPT ![t].pc = "rest", ![t].pid = n,
                         ![t].rest = Left(saved.of, IF saved.text = "word" THEN "end" ELSE "head", 0)]
             /\ UNCHANGED up
  BY DEF Third
<1>3. CASE n = NULL
  <2>1. UNCHANGED th
    BY <1>2, <1>3
  <2>2. t \notin crossed' => OnCourse(t)'
    BY <1>1, <2>1 DEF AskInv, OnCourse, Ask, parse
  <2> QED BY <1>1, <2>1, <2>2, StepsOn
<1>4. CASE n # NULL
  <2> DEFINE rest == Left(saved.of, IF saved.text = "word" THEN "end" ELSE "head", 0)
  <2>1. th' = [th EXCEPT ![t].pc = "rest", ![t].pid = n, ![t].rest = rest]
    BY <1>2, <1>4
  <2> HIDE DEF rest
  <2>2. /\ \A s \in Thread : s # t => th'[s] = th[s]
        /\ th'[t].pc = "rest" /\ th'[t].pid = n /\ th'[t].on = th[t].on
    BY <2>1 DEF IInv, NetType, Threads
  <2>3. ASSUME t \notin crossed' PROVE OnCourse(t)'
    <3>1. OnCourse(t) /\ Ask(t)' = Ask(t)
      BY <1>1, <2>2, <2>3 DEF AskInv, Ask, parse
    <3>2. Get(Ask(t))
      BY <3>1, <1>1 DEF OnCourse
    <3>3. CASE Ask(t).kind = "poll"
      <4>1. saved.of = t /\ saved.text = "query" /\ saved.pid = Ask(t).pid
        BY <3>1, <1>1, <3>3 DEF OnCourse, Left
      <4>2. ~Gone(saved)
        BY <4>1, <1>1 DEF Gone
      <4>3. Number(saved) = {saved.pid}
        BY <4>1, <4>2 DEF Number
      <4> QED BY <4>1, <4>3, <3>1, <3>2, <2>2 DEF OnCourse
    <3>4. CASE Ask(t).kind # "poll"
      <4>1. Ask(t).kind # "key"
        BY <3>2 DEF Get
      <4> QED BY <4>1, <3>1, <3>2, <3>4, <2>2 DEF OnCourse
    <3> QED BY <3>3, <3>4
  <2> QED BY <1>1, <2>2, <2>3, StepsOn
<1> QED BY <1>3, <1>4

LEMMA RestAsk == ASSUME IInv, AskInv, NEW t \in Thread, Rest(t) PROVE AskInv'
<1>1. UNCHANGED <<asks, link, answers>> /\ th[t].pc = "rest" /\ Store(t, th[t].rest)
  BY DEF Rest, net, At
<1>2. /\ \A s \in Thread : s # t => th'[s] = th[s]
      /\ th'[t].pc = "cut" /\ th'[t].pid = th[t].pid /\ th'[t].on = th[t].on
  BY DEF Rest, IInv, NetType, Threads
<1>3. t \notin crossed' => OnCourse(t)'
  BY <1>1, <1>2 DEF AskInv, OnCourse, Ask, Store
<1> QED BY <1>1, <1>2, <1>3, StepsOn

LEMMA CutAsk == ASSUME IInv, AskInv, NEW t \in Thread, Cut(t) PROVE AskInv'
<1>1. UNCHANGED <<asks, link, answers>> /\ th[t].pc = "cut" /\ Store(t, Left(t, "word", 0))
  BY DEF Cut, net, At
<1>2. /\ \A s \in Thread : s # t => th'[s] = th[s]
      /\ th'[t].pc = "cut" /\ th'[t].pid = th[t].pid /\ th'[t].on = th[t].on
  BY <1>1 DEF Cut, IInv, NetType, Threads
<1>3. t \notin crossed' => OnCourse(t)'
  BY <1>1, <1>2 DEF AskInv, OnCourse, Ask, Store
<1> QED BY <1>1, <1>2, <1>3, StepsOn

LEMMA AccountAsk == ASSUME IInv, AskInv, NEW t \in Thread, Account(t) PROVE AskInv'
<1>1. UNCHANGED <<asks, link, answers, th>> /\ th[t].pc = "account"
  BY DEF Account, net, At
<1>2. UNCHANGED parse \/ \E x : Store(t, x)
  BY DEF Account
<1>3. t \notin crossed' => OnCourse(t)'
  BY <1>1, <1>2 DEF AskInv, OnCourse, Ask, Store, parse
<1> QED BY <1>1, <1>2, <1>3, StepsOn

\* The answer is for the Pid the thread has.
LEMMA RespondAsk == ASSUME IInv, AskInv, NEW t \in Thread, Respond(t) PROVE AskInv'
<1> DEFINE c == th[t].on
           answer == [to |-> c, pid |-> th[t].pid]
<1>1. /\ th[t].pc \in {"cut", "account"} /\ c \in Client
      /\ fds[th[t].fd] = c /\ answers[c] = <<>>
  BY DEF Respond, Ready, At, IInv, RefersOK, HoldOK, Past, Working
<1>2. UNCHANGED <<asks, link, parse>>
  BY DEF Respond
<1>3. /\ \A s \in Thread : s # t => th'[s] = th[s]
      /\ th'[t].pc = "close" /\ th'[t].on = th[t].on
  BY DEF Respond, Become, IInv, NetType, Threads
<1>4. \A s \in Thread : s \notin crossed' => OnCourse(s)'
  <2>1. OnCourse(t)'
    BY <1>3 DEF OnCourse
  <2> QED BY <1>2, <1>3, <2>1, OthersOnCourse
<1>5. StartOK'
  BY <1>1, <1>2, <1>3 DEF AskInv, StartOK, Client, parse
<1>6. /\ \A d \in Client : d # c => answers'[d] = answers[d]
      /\ answers'[c] = <<>> \/ answers'[c] = <<answer>>
  <2> HIDE DEF answer
  <2>1. answers' = answers \/ answers' = [answers EXCEPT ![c] = Append(@, answer)]
    BY <1>1 DEF Respond, answer
  <2>2. Append(answers[c], answer) = <<answer>>
    BY <1>1
  <2>3. answers' = answers \/ answers' = [answers EXCEPT ![c] = <<answer>>]
    BY <2>1, <2>2
  <2> QED BY <2>3, <1>1 DEF IInv, NetType
<1>7. \A s \in crossed : s \in Thread /\ th'[s].on = th[s].on
  BY <1>3 DEF AskInv, StartOK
<1>8. ASSUME asks[c].kind \in {"poll", "key"}, \A s \in crossed : th[s].on # c
      PROVE  answer.pid = asks[c].pid
  <2>1. OnCourse(t) /\ Ask(t) = asks[c]
    BY <1>8 DEF AskInv, Ask
  <2> QED BY <2>1, <1>1, <1>8 DEF OnCourse
<1>9. AskedPid'
  <2> SUFFICES ASSUME NEW d \in Client, NEW i \in DOMAIN answers'[d], asks[d].kind \in {"poll", "key"},
                      \A s \in crossed : th[s].on # d
               PROVE  answers'[d][i].pid = asks[d].pid
    BY <1>2, <1>7 DEF AskedPid, parse
  <2>1. CASE d # c
    BY <2>1, <1>6 DEF AskInv, AskedPid
  <2>2. CASE d = c
    <3> HIDE DEF answer
    <3>1. answers'[d] = <<answer>> /\ i = 1
      BY <2>2, <1>6
    <3> QED BY <3>1, <2>2, <1>8
  <2> QED BY <2>1, <2>2
<1> QED BY <1>4, <1>5, <1>9 DEF AskInv

\* With the invariant above this one is kept by every step.
THEOREM AskInvariant == Spec => []AskInv
<1>1. IInv /\ AskInv /\ [Next]_vars => AskInv'
  <2> SUFFICES ASSUME IInv, AskInv, [Next]_vars PROVE AskInv'
    OBVIOUS
  <2>1. ASSUME NEW c \in Client, Connect(c) \/ HangUp(c) PROVE AskInv'
    BY <2>1, LinkAsk
  <2>2. CASE Exit \/ UNCHANGED vars
    <3>1. UNCHANGED <<net, th, parse>>
      BY <2>2 DEF Exit, vars
    <3> QED BY <3>1 DEF net, parse, AskInv, StartOK, AskedPid, OnCourse, Ask
  <2>3. CASE Listen
    BY <2>2, <2>3, AcceptAsk DEF Listen
  <2>4. ASSUME NEW t \in Thread, Handle(t) PROVE AskInv'
    BY <2>4, EdgeAsk, SecondAsk, ThirdAsk, RestAsk, CutAsk, AccountAsk, RespondAsk DEF Handle
  <2> QED BY <2>1, <2>2, <2>3, <2>4 DEF Next
<1> QED BY Invariant, InitAsk, <1>1, PTL DEF Spec

(***************************************************************************)
(* A poll, or a key, is for the Pid it named, unless another thread called *)
(* strtok between the thread's second and third call: for any number of    *)
(* threads, and whatever else they ask for (libemunet.c:128-140, 361-395). *)
(***************************************************************************)
THEOREM AskedPidAlways == Spec => []AskedPid
<1>1. AskInv => AskedPid
  BY DEF AskInv
<1> QED BY AskInvariant, <1>1, PTL
-----------------------------------------------------------------------------
(***************************************************************************)
(* The descriptors that are in use.                                        *)
(***************************************************************************)

\* A connection has one descriptor, and a client that left with an answer a
\* thread that is about to close it.
OpenOK == \A f \in Fd : fds[f] # NULL =>
  /\ link[fds[f]] \in {"open", "over"}
  /\ \A g \in Fd : fds[g] = fds[f] => g = f
  /\ link[fds[f]] = "over" /\ asks[fds[f]].kind # "none" => answers[fds[f]] # <<>>
  /\ answers[fds[f]] # <<>> => \E t \in Thread : th[t].pc = "close" /\ th[t].on = fds[f]

\* A thread has a descriptor: it is about to read, or on the connection.
Grip(t, f) == /\ th[t].fd = f
              /\ th[t].pc = "read" \/ (th[t].on = fds[f] /\ th[t].pc \in {"wait"} \cup Past)

\* Whatever is accepted or fetched next, the descriptor is accounted for.
Firm(f) == \/ \E t \in Thread : Grip(t, f)
           \/ asks[fds[f]].kind = "none" /\ link[fds[f]] = "over"

HeldOK == \A f \in Fd : fds[f] # NULL =>
  Firm(f) \/ (NewSocket = f /\ \E t \in Thread : th[t].pc = "start") \/ fds[f] \in overtaken

\* Only who was accepted is on a connection, or answered.
Settled(t) == /\ th[t].pc \in {"none", "start", "read"} => th[t].on = NULL
              /\ th[t].on # NULL => link[th[t].on] \in {"open", "over"}

IdleOK == /\ \A t \in Thread : Settled(t)
          /\ \A c \in Client : link[c] \in {"none", "waiting"} => answers[c] = <<>>

\* A thread that has ended leaves nothing behind that nobody has.
DoneOK == \A t \in Thread, f \in Fd : fds[f] # NULL /\ th[t].pc = "done" /\ th[t].on = fds[f] => Firm(f)

LeakInv == OpenOK /\ HeldOK /\ IdleOK /\ DoneOK

\* A step of a thread that closes nothing.
LEMMA NoneClosed ==
  ASSUME IInv, LeakInv, NEW t \in Thread,
         UNCHANGED <<asks, link, fds, NewSocket, overtaken>>,
         \A s \in Thread : s # t => th'[s] = th[s],
         \A c \in Client : /\ answers'[c] # <<>> => answers[c] # <<>> \/ (th'[t].pc = "close" /\ th'[t].on = c)
                           /\ answers[c] # <<>> => answers'[c] # <<>>,
         th[t].pc # "close",
         th[t].pc = "start" => Grip(t, NewSocket)',
         \A f \in Fd : fds[f] # NULL /\ Grip(t, f) => Firm(f)',
         Settled(t)',
         \A f \in Fd : fds[f] # NULL /\ th'[t].pc = "done" /\ th'[t].on = fds[f] => Firm(f)'
  PROVE  LeakInv'
<1>1. \A s \in Thread, f \in Fd : s # t => (Grip(s, f)' <=> Grip(s, f))
  BY DEF Grip
<1>2. ASSUME NEW f \in Fd, fds[f] # NULL, Firm(f) PROVE Firm(f)'
  <2>1. CASE asks[fds[f]].kind = "none" /\ link[fds[f]] = "over"
    BY <2>1 DEF Firm
  <2>2. ASSUME NEW s \in Thread, Grip(s, f), s # t PROVE Firm(f)'
    BY <2>2, <1>1 DEF Firm
  <2> QED BY <1>2, <2>1, <2>2 DEF Firm
<1>3. OpenOK'
  <2> SUFFICES ASSUME NEW f \in Fd, fds[f] # NULL, answers'[fds[f]] # <<>>
               PROVE  \E s \in Thread : th'[s].pc = "close" /\ th'[s].on = fds[f]
    BY DEF LeakInv, OpenOK, IInv, NetType
  <2>1. fds[f] \in Client
    BY DEF IInv, NetType
  <2>2. CASE answers[fds[f]] # <<>>
    BY <2>2 DEF LeakInv, OpenOK
  <2>3. CASE th'[t].pc = "close" /\ th'[t].on = fds[f]
    BY <2>3
  <2> QED BY <2>1, <2>2, <2>3
<1>4. HeldOK'
  <2> SUFFICES ASSUME NEW f \in Fd, fds[f] # NULL
               PROVE  Firm(f)' \/ (NewSocket = f /\ \E s \in Thread : th'[s].pc = "start") \/ fds[f] \in overtaken
    BY DEF HeldOK
  <2>1. CASE Firm(f) \/ fds[f] \in overtaken
    BY <2>1, <1>2
  <2>2. ASSUME NEW s \in Thread, NewSocket = f, th[s].pc = "start", s = t PROVE Firm(f)'
    BY <2>2 DEF Firm
  <2>3. ASSUME NEW s \in Thread, NewSocket = f, th[s].pc = "start", s # t PROVE th'[s].pc = "start"
    BY <2>3
  <2> QED BY <2>1, <2>2, <2>3 DEF LeakInv, HeldOK
<1>5. IdleOK'
  <2>1. \A s \in Thread : Settled(s)'
    BY DEF LeakInv, IdleOK, Settled
  <2>2. ASSUME NEW c \in Client, link[c] \in {"none", "waiting"}, answers'[c] # <<>> PROVE FALSE
    <3>1. th'[t].pc = "close" /\ th'[t].on = c
      BY <2>2 DEF LeakInv, IdleOK
    <3> QED BY <3>1, <2>2, ServerAssumption DEF Settled, Client
  <2> QED BY <2>1, <2>2 DEF IdleOK
<1>6. DoneOK'
  BY <1>2 DEF LeakInv, DoneOK
<1> QED BY <1>3, <1>4, <1>5, <1>6 DEF LeakInv

LEMMA InitLeak == Init => LeakInv
<1> SUFFICES ASSUME Init PROVE LeakInv
  OBVIOUS
<1>1. \A t \in Thread : th[t].pc = "none" /\ th[t].on = NULL
  BY DEF Init, Fresh
<1>2. (\A f \in Fd : fds[f] = NULL) /\ \A c \in Client : answers[c] = <<>>
  BY DEF Init
<1> QED BY <1>1, <1>2 DEF LeakInv, OpenOK, HeldOK, IdleOK, Settled, DoneOK

\* A client that connects has no descriptor yet, and none that is not
\* answered leaves unless it was closed.
LEMMA LinkLeak == ASSUME IInv, LeakInv, NEW c \in Client, Connect(c) \/ HangUp(c) PROVE LeakInv'
<1>1. UNCHANGED <<asks, answers, fds, NewSocket, overtaken, th>>
  BY DEF Connect, HangUp
<1>2. \A f \in Fd : fds[f] # NULL => /\ fds[f] \in Client
                                     /\ link[fds[f]] = "over" => link'[fds[f]] = "over"
                                     /\ link'[fds[f]] \in {"open", "over"}
  BY DEF Connect, HangUp, IInv, NetType, LeakInv, OpenOK
<1>3. \A f \in Fd : fds[f] # NULL /\ Firm(f) => Firm(f)'
  BY <1>1, <1>2 DEF Firm, Grip
<1>4. OpenOK'
  <2>1. \A f \in Fd : fds[f] # NULL /\ link'[fds[f]] = "over" /\ asks[fds[f]].kind # "none" => answers[fds[f]] # <<>>
    BY <1>2 DEF Connect, HangUp, IInv, NetType, LeakInv, OpenOK
  <2> QED BY <1>1, <1>2, <2>1 DEF LeakInv, OpenOK
<1>5. HeldOK' /\ DoneOK'
  BY <1>1, <1>3 DEF LeakInv, HeldOK, DoneOK
<1>6. ASSUME NEW d \in Client
      PROVE  /\ link[d] \in {"open", "over"} => link'[d] \in {"open", "over"}
             /\ link'[d] \in {"none", "waiting"} => link[d] \in {"none", "waiting"}
  BY DEF Connect, HangUp, IInv, NetType
<1>7. ASSUME NEW t \in Thread PROVE Settled(t)'
  <2>1. Settled(t) /\ th[t].on \in Client \cup {NULL} /\ th' = th
    BY <1>1 DEF LeakInv, IdleOK, IInv, NetType, Threads
  <2> QED BY <2>1, <1>6 DEF Settled
<1>8. ASSUME NEW d \in Client, link'[d] \in {"none", "waiting"} PROVE answers'[d] = <<>>
  <2>1. link[d] \in {"none", "waiting"}
    BY <1>6, <1>8
  <2> QED BY <2>1, <1>1 DEF LeakInv, IdleOK
<1>9. IdleOK'
  BY <1>7, <1>8 DEF IdleOK
<1> QED BY <1>4, <1>5, <1>9 DEF LeakInv

\* The last descriptor, if nobody has fetched it, is overtaken.
LEMMA AcceptLeak == ASSUME IInv, AskInv, LeakInv, NEW c \in Client, Accept(c) PROVE LeakInv'
<1>1. PICK f \in Fd : /\ fds[f] = NULL /\ NewSocket' = f
                      /\ fds' = [fds EXCEPT ![f] = c]
  BY LowestFree DEF Accept, FreeFd
<1>2. /\ c \in Thread /\ c # NULL /\ fds'[f] = c
      /\ \A g \in Fd : g # f => fds'[g] = fds[g]
      /\ \A g \in Fd : fds[g] # NULL => g # f /\ fds[g] \in Client
  BY <1>1, ServerAssumption DEF Client, IInv, NetType
<1>3. th' = [th EXCEPT ![c].pc = "start"] /\ UNCHANGED <<asks, answers>>
  BY DEF Accept, Become
<1>4. \A t \in Thread : /\ t # c => th'[t] = th[t]
                        /\ th'[t].on = th[t].on
                        /\ t = c => th'[t].pc = "start"
  BY <1>2, <1>3 DEF IInv, NetType, Threads
<1>5. th[c].pc = "none" /\ th[c].on = NULL /\ answers[c] = <<>> /\ link[c] = "waiting"
  <2>1. th[c].pc = "none"
    BY DEF Accept, AskInv, StartOK
  <2> QED BY <2>1, <1>2 DEF Accept, LeakInv, IdleOK, Settled
<1>6. link' = [link EXCEPT ![c] = "open"] /\ overtaken' = overtaken \cup Missed
  BY DEF Accept
<1>7. /\ link'[c] = "open" /\ \A d \in Client : d # c => link'[d] = link[d]
      /\ \A g \in Fd : fds[g] # c
      /\ \A t \in Thread : th[t].on # c /\ th[t].on \in Client \cup {NULL} /\ th[t].pc \in Label
  BY <1>2, <1>5, <1>6 DEF IInv, NetType, Threads, LeakInv, OpenOK, IdleOK, Settled
<1>8. ASSUME NEW g \in Fd, fds[g] # NULL, Firm(g) PROVE Firm(g)'
  <2>1. fds'[g] = fds[g] /\ link'[fds[g]] = link[fds[g]]
    BY <1>2, <1>7, <1>8
  <2>2. ASSUME NEW t \in Thread, Grip(t, g) PROVE Grip(t, g)'
    <3>1. t # c
      BY <2>2, <1>5 DEF Grip, Past, Working
    <3> QED BY <3>1, <2>1, <2>2, <1>4 DEF Grip
  <2> QED BY <1>3, <1>8, <2>1, <2>2 DEF Firm
<1>9. OpenOK'
  <2> SUFFICES ASSUME NEW g \in Fd, fds'[g] # NULL
               PROVE  /\ link'[fds'[g]] \in {"open", "over"}
                      /\ \A h \in Fd : fds'[h] = fds'[g] => h = g
                      /\ link'[fds'[g]] = "over" /\ asks[fds'[g]].kind # "none" => answers[fds'[g]] # <<>>
                      /\ answers[fds'[g]] # <<>> => \E t \in Thread : th'[t].pc = "close" /\ th'[t].on = fds'[g]
    BY <1>3 DEF OpenOK
  <2>1. CASE g = f
    <3>1. fds'[g] = c /\ \A h \in Fd : fds'[h] = c => h = g
      BY <2>1, <1>2, <1>7
    <3> QED BY <3>1, <1>5, <1>7
  <2>2. CASE g # f
    <3>1. fds'[g] = fds[g] /\ fds[g] # c /\ fds[g] \in Client /\ link'[fds[g]] = link[fds[g]]
      BY <2>2, <1>2, <1>7
    <3>2. \A h \in Fd : fds'[h] = fds[g] => h = g
      BY <3>1, <1>2 DEF LeakInv, OpenOK
    <3>3. \A t \in Thread : th[t].pc = "close" => th'[t] = th[t]
      BY <1>4, <1>5
    <3>4. answers[fds[g]] # <<>> => \E t \in Thread : th[t].pc = "close" /\ th[t].on = fds[g]
      BY <3>1 DEF LeakInv, OpenOK
    <3>5. /\ link[fds[g]] \in {"open", "over"}
          /\ link[fds[g]] = "over" /\ asks[fds[g]].kind # "none" => answers[fds[g]] # <<>>
      BY <3>1 DEF LeakInv, OpenOK
    <3> QED BY <3>1, <3>2, <3>3, <3>4, <3>5
  <2> QED BY <2>1, <2>2
<1>10. HeldOK'
  <2> SUFFICES ASSUME NEW g \in Fd, fds'[g] # NULL
               PROVE  \/ Firm(g)' \/ fds'[g] \in overtaken'
                      \/ NewSocket' = g /\ \E t \in Thread : th'[t].pc = "start"
    BY DEF HeldOK
  <2>1. CASE g = f
    BY <2>1, <1>1, <1>2, <1>4
  <2>2. CASE g # f /\ ~Firm(g)
    <3>1. fds'[g] = fds[g] /\ fds[g] \in Client /\ fds[g] # NULL
      BY <2>2, <1>2
    <3>2. CASE fds[g] \notin overtaken
      <4>1. NewSocket = g
        BY <2>2, <3>1, <3>2 DEF LeakInv, HeldOK
      <4>2. ASSUME NEW t \in Thread, th[t].fd = g PROVE th[t].pc # "read" /\ th[t].on # fds[g]
        <5>1. ~Grip(t, g)
          BY <2>2 DEF Firm
        <5>2. CASE th[t].on = fds[g]
          <6>1. th[t].pc \notin {"none", "start", "read"}
            BY <5>2, <3>1 DEF LeakInv, IdleOK, Settled
          <6>2. th[t].pc = "done"
            BY <6>1, <5>1, <5>2, <4>2, <1>7 DEF Grip, Past, Label
          <6> QED BY <6>2, <5>2, <3>1, <2>2 DEF LeakInv, DoneOK
        <5> QED BY <5>1, <5>2, <4>2 DEF Grip
      <4>3. fds[g] \in Missed
        BY <4>1, <4>2, <3>1, <1>2, ServerAssumption DEF Missed, IInv, NetType
      <4> QED BY <4>3, <3>1, <1>6
    <3> QED BY <3>1, <3>2, <1>6
  <2>3. CASE g # f /\ Firm(g)
    BY <2>3, <1>2, <1>8
  <2> QED BY <2>1, <2>2, <2>3
<1>11. IdleOK'
  <2>1. \A t \in Thread : Settled(t)'
    BY <1>2, <1>4, <1>5, <1>7 DEF LeakInv, IdleOK, Settled
  <2>2. \A d \in Client : link'[d] \in {"none", "waiting"} => answers[d] = <<>>
    BY <1>7 DEF LeakInv, IdleOK
  <2> QED BY <2>1, <2>2, <1>3 DEF IdleOK
<1>12. DoneOK'
  <2> SUFFICES ASSUME NEW t \in Thread, NEW g \in Fd, fds'[g] # NULL, th'[t].pc = "done", th'[t].on = fds'[g]
               PROVE  Firm(g)'
    BY DEF DoneOK
  <2>1. th'[t] = th[t] /\ g # f /\ fds[g] = fds'[g]
    BY <1>2, <1>4, <1>7
  <2> QED BY <2>1, <1>8 DEF LeakInv, DoneOK
<1> QED BY <1>9, <1>10, <1>11, <1>12 DEF LeakInv

\* Who leaves without an answer never asked; another thread has the answer of
\* who leaves with one.
LEMMA LeftFirm ==
  ASSUME IInv, LeakInv, NEW f \in Fd, fds[f] # NULL, link[fds[f]] = "over",
         NEW t \in Thread, th[t].pc # "close",
         \A s \in Thread : s # t => th'[s] = th[s], UNCHANGED <<asks, link, fds>>
  PROVE  Firm(f)'
<1>1. CASE asks[fds[f]].kind = "none"
  BY <1>1 DEF Firm
<1>2. CASE asks[fds[f]].kind # "none"
  <2>1. PICK s \in Thread : th[s].pc = "close" /\ th[s].on = fds[f]
    BY <1>2 DEF LeakInv, OpenOK
  <2>2. th[s].fd = f
    BY <2>1 DEF IInv, HoldOK, RefersOK, LeakInv, OpenOK, Past
  <2>3. Grip(s, f)'
    BY <2>1, <2>2 DEF Grip, Past
  <2> QED BY <2>3 DEF Firm
<1> QED BY <1>1, <1>2

LEMMA FetchLeak == ASSUME IInv, LeakInv, NEW t \in Thread, Fetch(t) PROVE LeakInv'
<1>1. /\ UNCHANGED <<asks, link, answers, fds, NewSocket, overtaken>>
      /\ th[t].pc = "start" /\ th[t].on = NULL
  BY DEF Fetch, net, At, LeakInv, IdleOK, Settled
<1>2. /\ \A s \in Thread : s # t => th'[s] = th[s]
      /\ th'[t].pc = "read" /\ th'[t].fd = NewSocket /\ th'[t].on = NULL
  BY <1>1 DEF Fetch, IInv, NetType, Threads
<1>3. Grip(t, NewSocket)' /\ Settled(t)'
  BY <1>1, <1>2 DEF Grip, Settled
<1>4. \A f \in Fd : ~Grip(t, f)
  BY <1>1 DEF Grip, Past, Working
<1> QED BY <1>1, <1>2, <1>3, <1>4, NoneClosed

LEMMA ReadLeak == ASSUME IInv, LeakInv, NEW t \in Thread, Read(t) PROVE LeakInv'
<1>1. /\ UNCHANGED <<asks, link, answers, fds, NewSocket, overtaken>>
      /\ th[t].pc = "read" /\ th[t].fd \in Fd
  BY DEF Read, net, At, IInv, RefersOK
<1>2. /\ \A s \in Thread : s # t => th'[s] = th[s]
      /\ th'[t].pc = IF fds[th[t].fd] = NULL THEN "done" ELSE "wait"
      /\ th'[t].fd = th[t].fd /\ th'[t].on = fds[th[t].fd]
  BY <1>1 DEF Read, IInv, NetType, Threads
<1>3. Settled(t)'
  BY <1>1, <1>2 DEF LeakInv, OpenOK, Settled
<1>4. ASSUME NEW f \in Fd, fds[f] # NULL, Grip(t, f) PROVE Firm(f)'
  BY <1>1, <1>2, <1>4 DEF Firm, Grip
<1>5. \A f \in Fd : fds[f] # NULL => ~(th'[t].pc = "done" /\ th'[t].on = fds[f])
  BY <1>2
<1> QED BY <1>1, <1>2, <1>3, <1>4, <1>5, NoneClosed

LEMMA EmptyLeak == ASSUME IInv, LeakInv, NEW t \in Thread, Empty(t) PROVE LeakInv'
<1>1. /\ UNCHANGED <<asks, link, answers, fds, NewSocket, overtaken>>
      /\ th[t].pc = "wait" /\ link[th[t].on] = "over"
  BY DEF Empty, net, At
<1>2. /\ \A s \in Thread : s # t => th'[s] = th[s]
      /\ th'[t].pc = "done" /\ th'[t].fd = th[t].fd /\ th'[t].on = th[t].on
  BY <1>1 DEF Empty, Become, IInv, NetType, Threads
<1>3. Settled(t)'
  BY <1>1, <1>2 DEF Settled
<1>4. ASSUME NEW f \in Fd, fds[f] # NULL, th[t].on = fds[f] PROVE Firm(f)'
  BY <1>1, <1>2, <1>4, LeftFirm
<1>5. \A f \in Fd : Grip(t, f) => th[t].on = fds[f]
  BY <1>1 DEF Grip
<1> QED BY <1>1, <1>2, <1>3, <1>4, <1>5, NoneClosed

\* A thread that has its request, or gets it, keeps its grip.
LEMMA WorkLeak ==
  ASSUME IInv, LeakInv, NEW t \in Thread,
         Receive(t) \/ First(t) \/ Second(t) \/ Third(t) \/ Rest(t) \/ Cut(t) \/ Account(t)
  PROVE  LeakInv'
<1>1. /\ UNCHANGED <<asks, link, answers, fds, NewSocket, overtaken>>
      /\ th[t].pc \in {"wait"} \cup Working
  BY DEF Receive, First, Second, Third, Rest, Cut, Account, net, At, Working
<1>2. \A s \in Thread : s # t => th'[s] = th[s]
  BY DEF Receive, First, Second, Third, Rest, Cut, Account, Become, IInv, NetType
<1>3. th'[t].pc \in Working /\ th'[t].fd = th[t].fd /\ th'[t].on = th[t].on
  <2>1. CASE Receive(t) \/ First(t)
    BY <2>1 DEF Receive, First, Become, IInv, NetType, Threads, Working
  <2>2. CASE Second(t)
    BY <2>2 DEF Second, IInv, NetType, Threads, Working
  <2>3. CASE Third(t)
    <3>1. th[t].pc = "third"
      BY <2>3 DEF Third, At
    <3>2. CASE th' = th
      BY <3>1, <3>2 DEF Working
    <3>3. ASSUME NEW n, NEW rest, th' = [th EXCEPT ![t].pc = "rest", ![t].pid = n, ![t].rest = rest]
          PROVE  th'[t].pc = "rest" /\ th'[t].fd = th[t].fd /\ th'[t].on = th[t].on
      BY <3>3 DEF IInv, NetType, Threads
    <3>4. th' = th \/ \E n, rest : th' = [th EXCEPT ![t].pc = "rest", ![t].pid = n, ![t].rest = rest]
      BY <2>3 DEF Third
    <3> QED BY <3>2, <3>3, <3>4 DEF Working
  <2>4. CASE Rest(t) \/ Cut(t) \/ Account(t)
    BY <2>4 DEF Rest, Cut, Account, At, IInv, NetType, Threads, Working
  <2> QED BY <2>1, <2>2, <2>3, <2>4
<1>4. Settled(t)'
  BY <1>1, <1>3 DEF LeakInv, IdleOK, Settled, Working
<1>5. \A f \in Fd : Grip(t, f) => Firm(f)'
  BY <1>1, <1>3 DEF Firm, Grip, Past, Working
<1>6. th[t].pc \notin {"close", "start"} /\ th'[t].pc # "done"
  BY <1>1, <1>3 DEF Working
<1> QED BY <1>1, <1>2, <1>4, <1>5, <1>6, NoneClosed

LEMMA RespondLeak == ASSUME IInv, LeakInv, NEW t \in Thread, Respond(t) PROVE LeakInv'
<1>1. /\ UNCHANGED <<asks, link, fds, NewSocket, overtaken>>
      /\ th[t].pc \in {"cut", "account"} /\ fds[th[t].fd] = th[t].on /\ th[t].on \in Client
  BY DEF Respond, Ready, At, IInv, RefersOK, HoldOK, Past, Working
<1>2. /\ \A s \in Thread : s # t => th'[s] = th[s]
      /\ th'[t].pc = "close" /\ th'[t].fd = th[t].fd /\ th'[t].on = th[t].on
  BY DEF Respond, Become, IInv, NetType, Threads
<1>3. \A c \in Client : /\ answers'[c] # <<>> => answers[c] # <<>> \/ c = th[t].on
                        /\ answers[c] # <<>> => answers'[c] # <<>>
  <2> DEFINE answer == [to |-> th[t].on, pid |-> th[t].pid]
  <2>1. answers' = answers \/ answers' = [answers EXCEPT ![th[t].on] = Append(@, answer)]
    BY <1>1 DEF Respond
  <2> HIDE DEF answer
  <2>2. answers[th[t].on] = <<>> /\ Append(<<>>, answer) # <<>>
    BY <1>1 DEF IInv, HoldOK, Past, Working
  <2> QED BY <2>1, <2>2, <1>1 DEF IInv, NetType
<1>4. Settled(t)'
  BY <1>1, <1>2 DEF LeakInv, IdleOK, Settled
<1>5. \A f \in Fd : Grip(t, f) => Firm(f)'
  BY <1>1, <1>2 DEF Firm, Grip, Past
<1> QED BY <1>1, <1>2, <1>3, <1>4, <1>5, NoneClosed

\* The connection's only descriptor is gone, and nobody's grip on another.
LEMMA CloseLeak == ASSUME IInv, LeakInv, NEW t \in Thread, Close(t) PROVE LeakInv'
<1>1. /\ UNCHANGED <<asks, link, answers, NewSocket, overtaken>>
      /\ th[t].pc = "close" /\ th[t].fd \in Fd /\ fds[th[t].fd] = th[t].on
      /\ fds' = [fds EXCEPT ![th[t].fd] = NULL]
  BY DEF Close, At, IInv, RefersOK, HoldOK, Past
<1>2. /\ \A s \in Thread : s # t => th'[s] = th[s]
      /\ th'[t].pc = "done" /\ th'[t].on = th[t].on
  BY DEF Close, Become, IInv, NetType, Threads
<1>3. ASSUME NEW f \in Fd, fds'[f] # NULL
      PROVE  f # th[t].fd /\ fds'[f] = fds[f] /\ fds[f] # th[t].on
  BY <1>1, <1>3 DEF IInv, NetType, LeakInv, OpenOK
<1>4. ASSUME NEW f \in Fd, fds'[f] # NULL, Firm(f) PROVE Firm(f)'
  <2>1. \A s \in Thread : Grip(s, f) => s # t
    BY <1>1, <1>3, <1>4 DEF Grip
  <2>2. \A s \in Thread : Grip(s, f) => Grip(s, f)'
    BY <2>1, <1>2, <1>3, <1>4 DEF Grip
  <2> QED BY <2>2, <1>1, <1>3, <1>4 DEF Firm
<1>5. OpenOK'
  <2> SUFFICES ASSUME NEW f \in Fd, fds'[f] # NULL
               PROVE  /\ link[fds'[f]] \in {"open", "over"}
                      /\ \A g \in Fd : fds'[g] = fds'[f] => g = f
                      /\ link[fds'[f]] = "over" /\ asks[fds'[f]].kind # "none" => answers[fds'[f]] # <<>>
                      /\ answers[fds'[f]] # <<>> => \E s \in Thread : th'[s].pc = "close" /\ th'[s].on = fds'[f]
    BY <1>1 DEF OpenOK
  <2>1. f # th[t].fd /\ fds'[f] = fds[f] /\ fds[f] # th[t].on
    BY <1>3
  <2>2. \A g \in Fd : fds'[g] = fds[f] => g = f
    BY <1>3, <2>1 DEF LeakInv, OpenOK
  <2>3. answers[fds[f]] # <<>> => \E s \in Thread : th'[s].pc = "close" /\ th'[s].on = fds[f]
    BY <2>1, <1>2 DEF LeakInv, OpenOK
  <2> QED BY <2>1, <2>2, <2>3 DEF LeakInv, OpenOK
<1>6. HeldOK'
  <2> SUFFICES ASSUME NEW f \in Fd, fds'[f] # NULL
               PROVE  \/ Firm(f)' \/ fds'[f] \in overtaken
                      \/ NewSocket = f /\ \E s \in Thread : th'[s].pc = "start"
    BY <1>1 DEF HeldOK
  <2>1. \A s \in Thread : th[s].pc = "start" => th'[s] = th[s]
    BY <1>1, <1>2
  <2>2. Firm(f) \/ fds[f] \in overtaken \/ (NewSocket = f /\ \E s \in Thread : th[s].pc = "start")
    BY <1>3 DEF LeakInv, HeldOK
  <2> QED BY <2>1, <2>2, <1>3, <1>4
<1>7. IdleOK'
  BY <1>1, <1>2 DEF LeakInv, IdleOK, Settled
<1>8. DoneOK'
  <2> SUFFICES ASSUME NEW s \in Thread, NEW f \in Fd, fds'[f] # NULL, th'[s].pc = "done", th'[s].on = fds'[f]
               PROVE  Firm(f)'
    BY DEF DoneOK
  <2>1. fds'[f] = fds[f] /\ s # t /\ th'[s] = th[s]
    BY <1>2, <1>3
  <2> QED BY <2>1, <1>4 DEF LeakInv, DoneOK
<1> QED BY <1>5, <1>6, <1>7, <1>8 DEF LeakInv

(***************************************************************************)
(* A descriptor in use is a thread's, or the one to be fetched next, or    *)
(* lost in one of the two ways the code has: to a client that never sent,  *)
(* or to an accept that came before the fetch (libemunet.c:51-56, 65, 76). *)
(***************************************************************************)
THEOREM DescriptorsAccountedAlways == Spec => []DescriptorsAccounted
<1>1. IInv /\ AskInv /\ LeakInv /\ [Next]_vars => LeakInv'
  <2> SUFFICES ASSUME IInv, AskInv, LeakInv, [Next]_vars PROVE LeakInv'
    OBVIOUS
  <2>1. ASSUME NEW c \in Client, Connect(c) \/ HangUp(c) PROVE LeakInv'
    BY <2>1, LinkLeak
  <2>2. CASE Exit \/ UNCHANGED vars
    <3>1. UNCHANGED <<net, th>>
      BY <2>2 DEF Exit, vars
    <3> QED BY <3>1 DEF net, LeakInv, OpenOK, HeldOK, IdleOK, Settled, DoneOK, Firm, Grip
  <2>3. CASE Listen
    BY <2>2, <2>3, AcceptLeak DEF Listen
  <2>4. ASSUME NEW t \in Thread, Handle(t) PROVE LeakInv'
    BY <2>4, FetchLeak, ReadLeak, EmptyLeak, WorkLeak, RespondLeak, CloseLeak DEF Handle
  <2> QED BY <2>1, <2>2, <2>3, <2>4 DEF Next
<1>2. IInv /\ LeakInv => DescriptorsAccounted
  <2> SUFFICES ASSUME IInv, LeakInv, NEW f \in Fd, fds[f] # NULL, Firm(f)
               PROVE  \/ \E t \in Thread : th[t].fd = f /\ th[t].pc \notin {"done", "start"}
                      \/ asks[fds[f]].kind = "none" /\ link[fds[f]] = "over"
    BY DEF DescriptorsAccounted, LeakInv, HeldOK
  <2>1. \A t \in Thread : Grip(t, f) => th[t].fd = f /\ th[t].pc \notin {"done", "start"}
    BY DEF Grip, Past, Working
  <2> QED BY <2>1 DEF Firm
<1> QED BY Invariant, AskInvariant, InitLeak, <1>1, <1>2, PTL DEF Spec
-----------------------------------------------------------------------------
(***************************************************************************)
(* Accounts: any number of request threads, of users, of passwords and of  *)
(* lines in server/passwords.                                              *)
(***************************************************************************)

Hash == Text \X Salt

Jobs == [at : {"none", "scan", "crypt", "append", "compare", "session", "200", "404", "silent"},
         kind : {"none", "register", "login"}, user : User \cup {NULL}, text : Text \cup {NULL},
         hash : Hash \cup {NULL}]

AccountType == /\ passwords \in Seq(Line) /\ crypted \in Hash \cup {NULL}
               /\ job \in [Thread -> Jobs]

\* Only registrations and logins get as far as the files.
AskOK == \A t \in Thread : th[t].pc = "account" => Ask(t).kind \in {"register", "login"}

JobOK(t) ==
  /\ job[t].at # "none" => /\ job[t].kind \in {"register", "login"}
                           /\ job[t].user \in User /\ job[t].text \in Text
  /\ job[t].at = "append" => job[t].kind = "register" /\ crypted \in Hash
  /\ job[t].at \in {"compare", "session"} => job[t].kind = "login"

\* A registration that goes on found no line of the name; if there is one by
\* now, it came from a registration that overlapped this one.
NameOK(t) ==
  job[t].kind = "register" /\ job[t].at \in {"crypt", "append"}
    => job[t].user \in doubled \/ \A i \in DOMAIN passwords : passwords[i].user # job[t].user

\* A login that goes on has the hash of the first line of its user, ...
LineOK(t) ==
  job[t].kind = "login" /\ job[t].at \in {"crypt", "compare", "session"}
    => Find(job[t].user) # 0 /\ job[t].hash = passwords[Find(job[t].user)].hash

\* ... compares it with its own, unless another thread called crypt, ...
CryptOK(t) ==
  job[t].at = "compare" /\ t \notin muddled => crypted = <<job[t].text, job[t].hash[2]>>

\* ... and opens a session only for the text that hash was made from.
SessionOK(t) ==
  job[t].at = "session" /\ t \notin muddled => job[t].hash[1] = job[t].text

\* What was accepted is what the first line of the user was made from.
AcceptOK == \A a \in accepted : Find(a[1]) # 0 /\ passwords[Find(a[1])].hash[1] = a[2]

ThreadOK(t) == JobOK(t) /\ NameOK(t) /\ LineOK(t) /\ CryptOK(t) /\ SessionOK(t)

AccInv == AccountType /\ AcceptOK /\ \A t \in Thread : ThreadOK(t)

-----------------------------------------------------------------------------
(***************************************************************************)
(* The first line of a user.                                               *)
(***************************************************************************)
FirstOf(s, u) == SelectInSeq(s, LAMBDA l : l.user = u)

LEMMA FirstLine ==
  ASSUME NEW s \in Seq(Line), NEW u
  PROVE  /\ FirstOf(s, u) = 0 => \A i \in 1..Len(s) : s[i].user # u
         /\ FirstOf(s, u) # 0 => /\ FirstOf(s, u) \in 1..Len(s) /\ s[FirstOf(s, u)].user = u
                                /\ \A i \in 1..Len(s) : s[i].user = u => FirstOf(s, u) <= i
<1> DEFINE I == {i \in 1..Len(s) : s[i].user = u}
<1>1. FirstOf(s, u) = IF I # {} THEN Min(I) ELSE 0
  BY DEF FirstOf, SelectInSeq
<1>2. I \subseteq Nat /\ 0 \notin I
  BY DEF Line
<1>3. I # {} => Min(I) \in I /\ \A i \in I : Min(I) <= i
  <2> HIDE DEF I
  <2> QED BY <1>2, Least DEF Min
<1> QED BY <1>1, <1>2, <1>3

\* A line that is added is nobody's first who has one.
LEMMA FirstStays ==
  ASSUME NEW s \in Seq(Line), NEW l \in Line, NEW u, FirstOf(s, u) # 0
  PROVE  /\ FirstOf(Append(s, l), u) = FirstOf(s, u)
         /\ Append(s, l)[FirstOf(s, u)] = s[FirstOf(s, u)]
<1> DEFINE r == Append(s, l)
           j == FirstOf(s, u)
           k == FirstOf(r, u)
<1>1. r \in Seq(Line) /\ Len(s) \in Nat /\ Len(r) = Len(s) + 1 /\ \A i \in 1..Len(s) : r[i] = s[i]
  OBVIOUS
<1>2. j \in 1..Len(s) /\ s[j].user = u /\ \A i \in 1..Len(s) : s[i].user = u => j <= i
  BY FirstLine
<1>3. /\ k = 0 => \A i \in 1..Len(r) : r[i].user # u
      /\ k # 0 => /\ k \in 1..Len(r) /\ r[k].user = u
                  /\ \A i \in 1..Len(r) : r[i].user = u => k <= i
  BY <1>1, FirstLine
<1> HIDE DEF r, j, k
<1>4. j \in 1..Len(r) /\ r[j].user = u /\ r[j] = s[j]
  BY <1>1, <1>2
<1>5. k \in 1..Len(r) /\ r[k].user = u /\ k <= j
  BY <1>3, <1>4
<1>6. k \in 1..Len(s) /\ s[k].user = u
  BY <1>1, <1>2, <1>5
<1>7. k = j
  BY <1>2, <1>5, <1>6
<1> QED BY <1>4, <1>7 DEF r, j, k

LEMMA FindFirst == /\ \A u : Find(u) = FirstOf(passwords, u)
                   /\ \A u : Find(u)' = FirstOf(passwords', u)
  BY DEF Find, FirstOf, SelectInSeq


\* A step that changes one job.
LEMMA OneJob ==
  ASSUME AccountType, NEW t \in Thread, NEW new \in Jobs, job' = [job EXCEPT ![t] = new]
  PROVE  /\ job' \in [Thread -> Jobs] /\ job'[t] = new
         /\ \A s \in Thread : s # t => job'[s] = job[s]
  BY DEF AccountType

-----------------------------------------------------------------------------
(***************************************************************************)
(* Each step of Register and Login.                                        *)
(***************************************************************************)
LEMMA InitAcc == Init => AccInv /\ AskOK
<1> SUFFICES ASSUME Init PROVE AccInv /\ AskOK
  OBVIOUS
<1>1. NoJob \in Jobs /\ NoJob.at = "none"
  BY DEF NoJob, Jobs
<1>2. AccountType /\ \A t \in Thread : job[t].at = "none"
  BY <1>1, AccountsAssumption DEF Init, AccountsInit, AccountType
<1>3. AcceptOK
  BY DEF Init, AccountsInit, AcceptOK
<1>4. \A t \in Thread : ThreadOK(t)
  BY <1>2 DEF ThreadOK, JobOK, NameOK, LineOK, CryptOK, SessionOK
<1>5. AskOK
  BY DEF Init, Fresh, AskOK
<1> QED BY <1>2, <1>3, <1>4, <1>5 DEF AccInv

\* A thread whose job is not changed, by a step that adds no line.
LEMMA JobStays ==
  ASSUME AccInv, NEW s \in Thread, job'[s] = job[s], UNCHANGED passwords,
         doubled \subseteq doubled', muddled \subseteq muddled',
         crypted' = crypted \/ (crypted' \in Hash /\ (job[s].at = "compare" => s \in muddled'))
  PROVE  ThreadOK(s)'
<1>1. ThreadOK(s)
  BY DEF AccInv
<1>2. JobOK(s)' /\ CryptOK(s)' /\ SessionOK(s)'
  BY <1>1 DEF ThreadOK, JobOK, CryptOK, SessionOK
<1>3. NameOK(s)'
  BY <1>1 DEF ThreadOK, NameOK
<1>4. LineOK(s)'
  <2>1. \A u : Find(u)' = Find(u)
    BY FindFirst
  <2> QED BY <1>1, <2>1 DEF ThreadOK, LineOK
<1> QED BY <1>2, <1>3, <1>4 DEF ThreadOK

LEMMA AcceptStays == ASSUME AcceptOK, UNCHANGED <<passwords, accepted>> PROVE AcceptOK'
<1>1. \A u : Find(u)' = Find(u)
  BY FindFirst
<1> QED BY <1>1 DEF AcceptOK

LEMMA BeginAcc ==
  ASSUME AccInv, NEW t \in Thread, NEW ask \in Request, ask.kind \in {"register", "login"}, Begin(t, ask)
  PROVE  AccInv'
<1> DEFINE new == [NoJob EXCEPT !.at = "scan", !.kind = ask.kind, !.user = ask.user,
                     !.text = IF ask.kind = "register" THEN Tail1[ask.user] ELSE ask.text]
<1>1. ask.user \in User /\ (ask.kind = "login" => ask.text \in Text)
  BY DEF Request
<1>2. new \in Jobs /\ new.at = "scan" /\ new.kind = ask.kind /\ new.user \in User /\ new.text \in Text
  BY <1>1, AccountsAssumption DEF NoJob, Jobs
<1>3. job' = [job EXCEPT ![t] = new] /\ UNCHANGED <<passwords, crypted, accepted, doubled, muddled>>
  BY DEF Begin
<1> HIDE DEF new
<1>4. job' \in [Thread -> Jobs] /\ job'[t] = new /\ \A s \in Thread : s # t => job'[s] = job[s]
  BY <1>2, <1>3, OneJob DEF AccInv
<1>5. ThreadOK(t)'
  BY <1>2, <1>4 DEF ThreadOK, JobOK, NameOK, LineOK, CryptOK, SessionOK
<1>6. AccountType' /\ AcceptOK'
  BY <1>3, <1>4, AcceptStays DEF AccInv, AccountType
<1> QED BY <1>3, <1>4, <1>5, <1>6, JobStays DEF AccInv

LEMMA ScanAcc == ASSUME AccInv, NEW t \in Thread, Scan(t) PROVE AccInv'
<1> DEFINE line  == Find(job[t].user)
           taken == line # 0
           at    == IF taken = (job[t].kind = "login") THEN "crypt" ELSE "404"
           hash  == IF taken THEN passwords[line].hash ELSE NULL
           new   == [job[t] EXCEPT !.at = at, !.hash = hash]
<1>1. job[t] \in Jobs /\ passwords \in Seq(Line) /\ JobOK(t) /\ job[t].at = "scan"
  BY DEF Scan, AccInv, AccountType, ThreadOK
<1>2. /\ ~taken => \A i \in DOMAIN passwords : passwords[i].user # job[t].user
      /\ taken => line \in 1..Len(passwords)
  BY <1>1, FirstLine, FindFirst
<1>3. hash \in Hash \cup {NULL}
  <2>1. taken => passwords[line] \in Line
    BY <1>1, <1>2
  <2> QED BY <2>1 DEF Line, Hash
<1>4. job' = [job EXCEPT ![t] = new] /\ UNCHANGED <<passwords, crypted, accepted, doubled, muddled>>
  BY DEF Scan
<1> HIDE DEF hash, taken, line
<1>5. new \in Jobs /\ new.at \in {"crypt", "404"} /\ new.kind = job[t].kind /\ new.user = job[t].user
      /\ new.text = job[t].text /\ new.hash = hash
  BY <1>1, <1>3 DEF Jobs
<1>6. /\ new.at = "crypt" /\ new.kind = "login" => taken
      /\ new.at = "crypt" /\ new.kind = "register" => ~taken
  <2>1. job[t].kind = "login" \/ job[t].kind = "register"
    BY <1>1 DEF JobOK
  <2>2. new.at = at /\ new.kind = job[t].kind
    BY <1>1 DEF Jobs
  <2>3. taken \in BOOLEAN
    BY DEF taken
  <2> QED BY <2>1, <2>2, <2>3
<1> HIDE DEF new
<1>7. job' \in [Thread -> Jobs] /\ job'[t] = new /\ \A s \in Thread : s # t => job'[s] = job[s]
  BY <1>4, <1>5, OneJob DEF AccInv
<1>8. ThreadOK(t)'
  <2>1. JobOK(t)' /\ CryptOK(t)' /\ SessionOK(t)'
    BY <1>1, <1>5, <1>7 DEF JobOK, CryptOK, SessionOK
  <2>2. NameOK(t)'
    BY <1>2, <1>4, <1>5, <1>6, <1>7 DEF NameOK
  <2>3. LineOK(t)'
    <3>1. \A u : u = job'[t].user => Find(u)' = line
      BY <1>4, <1>5, <1>7, FindFirst DEF line
    <3>2. job'[t].kind = "login" /\ job'[t].at = "crypt" => taken
      BY <1>6, <1>7
    <3>3. job'[t].at \notin {"compare", "session"}
      BY <1>5, <1>7
    <3> QED BY <1>4, <1>5, <1>7, <3>1, <3>2, <3>3 DEF LineOK, taken, hash
  <2> QED BY <2>1, <2>2, <2>3 DEF ThreadOK
<1>9. AccountType' /\ AcceptOK'
  BY <1>4, <1>7, AcceptStays DEF AccInv, AccountType
<1> QED BY <1>4, <1>7, <1>8, <1>9, JobStays DEF AccInv

\* A step that sets where a thread is, and nothing else of its job.
LEMMA BeEffect ==
  ASSUME AccountType, NEW t \in Thread,
         NEW at \in {"append", "compare", "session", "200", "404", "silent"}, Be(t, at)
  PROVE  /\ job' \in [Thread -> Jobs] /\ job'[t].at = at /\ job'[t].kind = job[t].kind
         /\ job'[t].user = job[t].user /\ job'[t].text = job[t].text /\ job'[t].hash = job[t].hash
         /\ \A s \in Thread : s # t => job'[s] = job[s]
<1> DEFINE new == [job[t] EXCEPT !.at = at]
<1>1. job[t] \in Jobs
  BY DEF AccountType
<1>2. /\ new \in Jobs /\ new.at = at /\ new.kind = job[t].kind /\ new.user = job[t].user
      /\ new.text = job[t].text /\ new.hash = job[t].hash
  BY <1>1 DEF Jobs
<1>3. job' = [job EXCEPT ![t] = new]
  BY DEF Be
<1> HIDE DEF new
<1> QED BY <1>2, <1>3, OneJob

LEMMA CryptAcc == ASSUME AccInv, NEW t \in Thread, Crypt(t) PROVE AccInv'
<1>1. PICK salt \in Salt : /\ job[t].kind = "login" => salt = job[t].hash[2]
                           /\ crypted' = <<job[t].text, salt>>
  BY DEF Crypt
<1>2. /\ job[t].at = "crypt" /\ UNCHANGED <<passwords, accepted, doubled>>
      /\ muddled' = muddled \cup {s \in Thread \ {t} : job[s].at \in {"append", "compare"}}
  BY DEF Crypt
<1>3. ThreadOK(t)
  BY DEF AccInv
<1>4. job[t].kind \in {"register", "login"} /\ job[t].user \in User /\ job[t].text \in Text
  BY <1>2, <1>3 DEF ThreadOK, JobOK
<1>5. crypted' \in Hash
  BY <1>1, <1>4 DEF Hash
<1>6. PICK at \in {"append", "compare"} : Be(t, at) /\ (at = "append" <=> job[t].kind = "register")
  BY DEF Crypt
<1>7. /\ job' \in [Thread -> Jobs] /\ job'[t].at = at /\ job'[t].kind = job[t].kind
      /\ job'[t].user = job[t].user /\ job'[t].text = job[t].text /\ job'[t].hash = job[t].hash
      /\ \A s \in Thread : s # t => job'[s] = job[s]
  BY <1>6, BeEffect DEF AccInv
<1>8. ThreadOK(t)'
  <2>1. JobOK(t)'
    BY <1>4, <1>5, <1>6, <1>7 DEF JobOK
  <2>2. NameOK(t)'
    BY <1>2, <1>3, <1>7 DEF ThreadOK, NameOK
  <2>3. LineOK(t)'
    <3>1. \A u : Find(u)' = Find(u)
      BY <1>2, FindFirst
    <3> QED BY <1>2, <1>3, <1>7, <3>1 DEF ThreadOK, LineOK
  <2>4. CryptOK(t)'
    BY <1>1, <1>4, <1>6, <1>7 DEF CryptOK
  <2>5. SessionOK(t)'
    BY <1>6, <1>7 DEF SessionOK
  <2> QED BY <2>1, <2>2, <2>3, <2>4, <2>5 DEF ThreadOK
<1>9. ASSUME NEW s \in Thread, s # t PROVE ThreadOK(s)'
  BY <1>2, <1>5, <1>7, <1>9, JobStays
<1>10. AccountType' /\ AcceptOK'
  BY <1>2, <1>5, <1>7, AcceptStays DEF AccInv, AccountType
<1> QED BY <1>8, <1>9, <1>10 DEF AccInv

\* A line is added: who looked for the same name and did not find it is a
\* rival, and nobody's first line changes.
LEMMA AddLineAcc ==
  ASSUME AccInv, NEW t \in Thread, AddLine(t)
  PROVE  AccInv' /\ (job[t].user \in doubled' \/ \A i \in DOMAIN passwords : passwords[i].user # job[t].user)
<1> DEFINE u == job[t].user
           l == [user |-> u, hash |-> crypted]
<1>1. /\ job[t].at = "append" /\ UNCHANGED <<crypted, accepted, muddled>> /\ Be(t, "silent")
      /\ passwords' = Append(passwords, l)
      /\ doubled' = IF Rivals(t) = {} THEN doubled ELSE doubled \cup {u}
  BY DEF AddLine
<1>2. ThreadOK(t)
  BY DEF AccInv
<1>3. l \in Line /\ job[t].kind = "register"
  BY <1>1, <1>2 DEF ThreadOK, JobOK, Line, Hash
<1>4. passwords \in Seq(Line) /\ passwords' \in Seq(Line)
  <2>1. passwords \in Seq(Line)
    BY DEF AccInv, AccountType
  <2> HIDE DEF l
  <2> QED BY <2>1, <1>1, <1>3
<1>5. \A v : Find(v) # 0 => /\ Find(v)' = Find(v) /\ passwords'[Find(v)] = passwords[Find(v)]
  <2> SUFFICES ASSUME NEW v, Find(v) # 0
               PROVE  Find(v)' = Find(v) /\ passwords'[Find(v)] = passwords[Find(v)]
    OBVIOUS
  <2> HIDE DEF l
  <2>1. Find(v) = FirstOf(passwords, v) /\ Find(v)' = FirstOf(passwords', v)
    BY FindFirst
  <2> QED BY ZenonT(40), <1>1, <1>3, <1>4, <2>1, FirstStays
<1>6. /\ job' \in [Thread -> Jobs] /\ job'[t].at = "silent" /\ job'[t].kind = job[t].kind
      /\ job'[t].user = job[t].user /\ job'[t].text = job[t].text /\ job'[t].hash = job[t].hash
      /\ \A s \in Thread : s # t => job'[s] = job[s]
  BY <1>1, BeEffect DEF AccInv
<1>7. doubled \subseteq doubled' /\ (Rivals(t) # {} => u \in doubled')
  BY <1>1
<1>8. u \in doubled' \/ \A i \in DOMAIN passwords : passwords[i].user # u
  BY <1>1, <1>2, <1>3, <1>7 DEF ThreadOK, NameOK
<1>9. /\ Len(passwords') = Len(passwords) + 1 /\ Len(passwords) \in Nat
      /\ passwords'[Len(passwords) + 1].user = u
      /\ \A i \in 1..Len(passwords) : passwords'[i] = passwords[i]
  <2>1. l.user = u
    OBVIOUS
  <2> HIDE DEF l
  <2> QED BY <1>1, <1>3, <1>4, <2>1
<1> HIDE DEF u, l
<1>10. ThreadOK(t)'
  <2>1. JobOK(t)'
    BY <1>1, <1>2, <1>6 DEF ThreadOK, JobOK
  <2>2. NameOK(t)' /\ LineOK(t)' /\ CryptOK(t)' /\ SessionOK(t)'
    BY <1>6 DEF NameOK, LineOK, CryptOK, SessionOK
  <2> QED BY <2>1, <2>2 DEF ThreadOK
<1>11. ASSUME NEW s \in Thread, s # t PROVE ThreadOK(s)'
  <2>1. ThreadOK(s) /\ job'[s] = job[s]
    BY <1>6, <1>11 DEF AccInv
  <2>2. JobOK(s)' /\ CryptOK(s)' /\ SessionOK(s)'
    BY <1>1, <2>1 DEF ThreadOK, JobOK, CryptOK, SessionOK
  <2>3. NameOK(s)'
    <3> SUFFICES ASSUME job[s].kind = "register", job[s].at \in {"crypt", "append"}, job[s].user \notin doubled'
                 PROVE  \A i \in DOMAIN passwords' : passwords'[i].user # job[s].user
      BY <2>1 DEF NameOK
    <3>1. \A i \in DOMAIN passwords : passwords[i].user # job[s].user
      BY <1>7, <2>1 DEF ThreadOK, NameOK
    <3>2. job[s].user # u
      <4>1. job[s].user = u => s \in Rivals(t)
        BY <1>11 DEF Rivals, u
      <4> QED BY <4>1, <1>7
    <3> QED BY <3>1, <3>2, <1>4, <1>9
  <2>4. LineOK(s)'
    <3> SUFFICES ASSUME job[s].kind = "login", job[s].at \in {"crypt", "compare", "session"}
                 PROVE  \A v : v = job[s].user => Find(v)' # 0 /\ job[s].hash = passwords'[Find(v)']
                                                                                .hash
      BY <2>1 DEF LineOK
    <3>1. Find(job[s].user) # 0 /\ job[s].hash = passwords[Find(job[s].user)].hash
      BY <2>1 DEF ThreadOK, LineOK
    <3> QED BY <3>1, <1>5
  <2> QED BY <2>2, <2>3, <2>4 DEF ThreadOK
<1>12. AcceptOK'
  <2> SUFFICES ASSUME NEW a \in accepted
               PROVE  \A v : v = a[1] => Find(v)' # 0 /\ passwords'[Find(v)'].hash[1] = a[2]
    BY <1>1 DEF AcceptOK
  <2>1. Find(a[1]) # 0 /\ passwords[Find(a[1])].hash[1] = a[2]
    BY DEF AccInv, AcceptOK
  <2> QED BY <2>1, <1>5
<1>13. AccountType'
  BY <1>1, <1>4, <1>6 DEF AccInv, AccountType
<1> QED BY <1>8, <1>10, <1>11, <1>12, <1>13 DEF AccInv, u

LEMMA CompareAcc == ASSUME AccInv, NEW t \in Thread, Compare(t) PROVE AccInv'
<1>1. job[t].at = "compare" /\ UNCHANGED <<passwords, crypted, accepted, doubled, muddled>>
  BY DEF Compare
<1>2. PICK at \in {"session", "404"} : Be(t, at) /\ (at = "session" => crypted = job[t].hash)
  BY DEF Compare
<1>3. /\ job' \in [Thread -> Jobs] /\ job'[t].at = at /\ job'[t].kind = job[t].kind
      /\ job'[t].user = job[t].user /\ job'[t].text = job[t].text /\ job'[t].hash = job[t].hash
      /\ \A s \in Thread : s # t => job'[s] = job[s]
  BY <1>2, BeEffect DEF AccInv
<1>4. ThreadOK(t)'
  <2>1. ThreadOK(t)
    BY DEF AccInv
  <2>2. JobOK(t)' /\ NameOK(t)' /\ CryptOK(t)'
    BY <1>1, <1>2, <1>3, <2>1 DEF ThreadOK, JobOK, NameOK, CryptOK
  <2>3. LineOK(t)'
    <3>1. \A u : Find(u)' = Find(u)
      BY <1>1, FindFirst
    <3> QED BY <1>1, <1>3, <2>1, <3>1 DEF ThreadOK, LineOK
  <2>4. SessionOK(t)'
    BY <1>1, <1>2, <1>3, <2>1 DEF ThreadOK, CryptOK, SessionOK
  <2> QED BY <2>2, <2>3, <2>4 DEF ThreadOK
<1>5. AccountType' /\ AcceptOK'
  BY <1>1, <1>3, AcceptStays DEF AccInv, AccountType
<1> QED BY <1>1, <1>3, <1>4, <1>5, JobStays DEF AccInv

LEMMA AddSessionAcc == ASSUME AccInv, NEW t \in Thread, AddSession(t) PROVE AccInv'
<1>1. /\ job[t].at = "session" /\ UNCHANGED <<passwords, crypted, doubled, muddled>> /\ Be(t, "200")
      /\ accepted' = IF t \in muddled THEN accepted ELSE accepted \cup {<<job[t].user, job[t].text>>}
  BY DEF AddSession
<1>2. /\ job' \in [Thread -> Jobs] /\ job'[t].at = "200" /\ job'[t].kind = job[t].kind
      /\ job'[t].user = job[t].user /\ job'[t].text = job[t].text /\ job'[t].hash = job[t].hash
      /\ \A s \in Thread : s # t => job'[s] = job[s]
  BY <1>1, BeEffect DEF AccInv
<1>3. ThreadOK(t)
  BY DEF AccInv
<1>4. ThreadOK(t)'
  <2>1. JobOK(t)'
    BY <1>1, <1>2, <1>3 DEF ThreadOK, JobOK
  <2>2. NameOK(t)' /\ LineOK(t)' /\ CryptOK(t)' /\ SessionOK(t)'
    BY <1>2 DEF NameOK, LineOK, CryptOK, SessionOK
  <2> QED BY <2>1, <2>2 DEF ThreadOK
<1>5. t \notin muddled => Find(job[t].user) # 0 /\ passwords[Find(job[t].user)].hash[1] = job[t].text
  BY <1>1, <1>3 DEF ThreadOK, JobOK, LineOK, SessionOK
<1>6. AcceptOK'
  <2>1. \A u : Find(u)' = Find(u)
    BY <1>1, FindFirst
  <2> SUFFICES ASSUME NEW a \in accepted' PROVE Find(a[1]) # 0 /\ passwords[Find(a[1])].hash[1] = a[2]
    BY <1>1, <2>1 DEF AcceptOK
  <2>2. CASE a \in accepted
    BY <2>2 DEF AccInv, AcceptOK
  <2>3. CASE a \notin accepted
    <3>1. a = <<job[t].user, job[t].text>> /\ t \notin muddled
      BY <1>1, <2>3
    <3>2. a[1] = job[t].user /\ a[2] = job[t].text
      BY <3>1
    <3> QED BY <3>1, <3>2, <1>5
  <2> QED BY <2>2, <2>3
<1>7. AccountType'
  BY <1>1, <1>2 DEF AccInv, AccountType
<1> QED BY <1>1, <1>2, <1>4, <1>6, <1>7, JobStays DEF AccInv

-----------------------------------------------------------------------------
(***************************************************************************)
(* The steps of the server.                                                *)
(***************************************************************************)
Steps == \/ Exit \/ \E c \in Client : Accept(c) \/ Connect(c) \/ HangUp(c)
         \/ \E t \in Thread : \/ Fetch(t) \/ Read(t) \/ Receive(t) \/ Empty(t)
                               \/ First(t) \/ Third(t) \/ Rest(t) \/ Cut(t)
                               \/ Respond(t) \/ Close(t)

LEMMA NextSteps == Next <=> Steps \/ \E t \in Thread : Second(t) \/ Account(t)
  BY SMTT(30) DEF Next, Steps, Listen, Handle

\* Only Account touches what this module is about.
LEMMA StepsFrame == Steps => UNCHANGED accounts
  BY DEF Steps, Exit, Accept, Connect, HangUp, Fetch, Read, Receive, Empty, First, Third, Rest,
         Cut, Respond, Close

LEMMA SecondFrame == \A t \in Thread : Second(t) => UNCHANGED accounts
  BY DEF Second

LEMMA AccFrame == ASSUME AccInv, UNCHANGED accounts PROVE AccInv'
<1>1. UNCHANGED <<passwords, crypted, job, accepted, doubled, muddled>>
  BY DEF accounts
<1>2. AccountType' /\ AcceptOK'
  BY <1>1, AcceptStays DEF AccInv, AccountType
<1>3. \A t \in Thread : ThreadOK(t)'
  BY <1>1, JobStays
<1> QED BY <1>2, <1>3 DEF AccInv

\* Whoever is at a handler of an account now was there before, for the same
\* request, or has just read its path.
LEMMA AskStays ==
  ASSUME IInv, AskOK, Next PROVE AskOK'
<1> SUFFICES ASSUME NEW s \in Thread, th'[s].pc = "account"
             PROVE  asks'[th'[s].on].kind \in {"register", "login"}
  BY DEF AskOK, Ask
<1>1. th \in [Thread -> Threads]
  BY DEF IInv, NetType
<1>2. asks' = asks
  BY DEF Next, Listen, Exit, Accept, Connect, HangUp, Handle, Fetch, Read, Receive, Empty, First,
         Second, Third, Rest, Cut, Account, Respond, Close, net
<1>3. \/ th[s].pc = "account" /\ th'[s].on = th[s].on
      \/ Second(s)
  <2>1. CASE UNCHANGED th
    BY <2>1
  <2>2. ASSUME NEW t \in Thread, NEW pc \in Label \ {"account"}, Become(t, pc)
        PROVE  th[s].pc = "account" /\ th'[s].on = th[s].on
    BY <1>1, <2>2 DEF Become, Threads
  <2>3. ASSUME NEW t \in Thread, Fetch(t) \/ Read(t) \/ Third(t) \/ Rest(t) \/ Cut(t)
        PROVE  th[s].pc = "account" /\ th'[s].on = th[s].on
    <3>1. CASE Fetch(t) \/ Cut(t)
      BY <1>1, <3>1 DEF Fetch, Cut, Threads
    <3>2. CASE Read(t)
      BY <1>1, <3>2 DEF Read, Threads
    <3>3. CASE Third(t)
      BY <1>1, <3>3 DEF Third, Threads
    <3>4. CASE Rest(t)
      BY <1>1, <3>4 DEF Rest, Threads
    <3> QED BY <2>3, <3>1, <3>2, <3>3, <3>4
  <2>4. ASSUME NEW t \in Thread, t # s, Second(t)
        PROVE  th[s].pc = "account" /\ th'[s].on = th[s].on
    BY <1>1, <2>4 DEF Second, Threads
  <2>5. CASE Exit \/ \E c \in Client : Connect(c) \/ HangUp(c)
    BY <2>1, <2>5 DEF Exit, Connect, HangUp
  <2>6. ASSUME NEW c \in Client, Accept(c) PROVE th[s].pc = "account" /\ th'[s].on = th[s].on
    BY <2>2, <2>6 DEF Accept, Client, Label
  <2>7. ASSUME NEW t \in Thread, Receive(t) \/ Empty(t) \/ Respond(t) \/ Close(t)
        PROVE  th[s].pc = "account" /\ th'[s].on = th[s].on
    BY <2>2, <2>7 DEF Receive, Empty, Respond, Close, Label, Working
  <2>8. CASE \E t \in Thread : First(t)
    BY <2>2, <2>8 DEF First, Label, Working
  <2>9. CASE \E t \in Thread : Account(t)
    BY <2>1, <2>9 DEF Account
  <2> QED BY <2>3, <2>4, <2>5, <2>6, <2>7, <2>8, <2>9, NextSteps DEF Steps
<1>4. ASSUME Second(s) PROVE asks[th'[s].on].kind \in {"register", "login"}
  BY <1>1, <1>4 DEF Second, Ask, Threads
<1> QED BY <1>2, <1>3, <1>4 DEF AskOK, Ask

LEMMA AccountAcc == ASSUME IInv, AskOK, AccInv, NEW t \in Thread, Account(t) PROVE AccInv'
<1>1. CASE job[t].at = "none" /\ Begin(t, Ask(t))
  <2>1. th[t].pc = "account" /\ th[t].on \in Client
    BY DEF Account, At, IInv, RefersOK, Past, Working
  <2>2. Ask(t) \in Request /\ Ask(t).kind \in {"register", "login"}
    BY <2>1 DEF IInv, NetType, AskOK, Ask
  <2> QED BY <1>1, <2>2, BeginAcc
<1> QED BY <1>1, ScanAcc, CryptAcc, AddLineAcc, CompareAcc, AddSessionAcc DEF Account, AccountStep

LEMMA AccNext == IInv /\ AskOK /\ AccInv /\ [Next]_vars => AskOK' /\ AccInv'
<1> SUFFICES ASSUME IInv, AskOK, AccInv, [Next]_vars PROVE AskOK' /\ AccInv'
  OBVIOUS
<1>1. CASE Next
  <2>1. AskOK'
    BY <1>1, AskStays
  <2>2. AccInv'
    BY <1>1, NextSteps, StepsFrame, SecondFrame, AccFrame, AccountAcc
  <2> QED BY <2>1, <2>2
<1>2. CASE UNCHANGED vars
  BY <1>2, AccFrame DEF vars, net, AskOK, Ask
<1> QED BY <1>1, <1>2

(***************************************************************************)
(* The hashes, names and logins that are under way fit the lines of        *)
(* server/passwords.                                                       *)
(***************************************************************************)
THEOREM AccountsInvariant == Spec => [](IInv /\ AskOK /\ AccInv)
<1>1. Init => AskOK /\ AccInv
  BY InitAcc
<1>2. IInv /\ AskOK /\ AccInv /\ [Next]_vars => (AskOK /\ AccInv)'
  BY AccNext
<1> QED BY <1>1, <1>2, Invariant, PTL DEF Spec

(***************************************************************************)
(* NamesUnique: Register's look at the file and its write are apart, and   *)
(* only a registration that comes between them makes a name double         *)
(* (libemunet.c:164-190).                                                  *)
(***************************************************************************)
THEOREM NamesUniqueAlways == Spec => NamesUnique
<1> DEFINE Known == LET u == Last(passwords').user
                    IN  u \in doubled' \/ \A i \in DOMAIN passwords : passwords[i].user # u
<1>1. ASSUME IInv, AskOK, AccInv, [Next]_vars PROVE [passwords' # passwords => Known]_accounts
  <2> SUFFICES ASSUME passwords' # passwords PROVE Known
    OBVIOUS
  <2>1. ~UNCHANGED accounts
    BY DEF accounts
  <2>2. PICK t \in Thread : Account(t)
    BY <1>1, <2>1, NextSteps, StepsFrame, SecondFrame DEF vars
  <2>3. AddLine(t)
    BY <2>2 DEF Account, Begin, Scan, AccountStep, Crypt, Compare, AddSession
  <2>4. Last(passwords').user = job[t].user
    <3> DEFINE l == [user |-> job[t].user, hash |-> crypted]
    <3>1. l.user = job[t].user
      OBVIOUS
    <3>2. passwords' = Append(passwords, l) /\ passwords \in Seq(Line)
      BY <1>1, <2>3 DEF AddLine, AccInv, AccountType
    <3> HIDE DEF l
    <3>3. Len(passwords') = Len(passwords) + 1 /\ passwords'[Len(passwords) + 1] = l
      BY <3>2
    <3> QED BY <3>1, <3>3 DEF Last
  <2> QED BY <1>1, <2>3, <2>4, AddLineAcc
<1>2. IInv /\ AskOK /\ AccInv /\ [Next]_vars => [passwords' # passwords => Known]_accounts
  BY <1>1
<1> QED BY <1>2, AccountsInvariant, PTL DEF Spec, NamesUnique

(***************************************************************************)
(* AcceptedAgain: whatever is registered and however the threads share     *)
(* crypt's buffer, a password that was good stays good                     *)
(* (libemunet.c:218-244).                                                  *)
(***************************************************************************)
THEOREM AcceptedAgainAlways == Spec => AcceptedAgain
<1> DEFINE Good == \A t \in Thread :
             job[t].kind = "login" /\ job[t].at # "404" /\ job'[t].at = "404" /\ t \notin muddled
               => <<job[t].user, job[t].text>> \notin accepted
<1>1. ASSUME IInv, AskOK, AccInv, [Next]_vars PROVE [Good]_accounts
  <2> SUFFICES ASSUME ~UNCHANGED accounts, NEW t \in Thread, job[t].kind = "login", job[t].at # "404",
                      job'[t].at = "404", t \notin muddled, <<job[t].user, job[t].text>> \in accepted
               PROVE  FALSE
    OBVIOUS
  <2>1. PICK s \in Thread : Account(s)
    BY <1>1, NextSteps, StepsFrame, SecondFrame DEF vars
  <2>2. ThreadOK(t) /\ AccountType /\ AcceptOK /\ job[t] \in Jobs
    BY <1>1 DEF AccInv, AccountType
  <2>3. /\ Find(job[t].user) # 0 /\ passwords[Find(job[t].user)].hash[1] = job[t].text
    <3> DEFINE a == <<job[t].user, job[t].text>>
    <3>1. a[1] = job[t].user /\ a[2] = job[t].text /\ a \in accepted
      OBVIOUS
    <3> HIDE DEF a
    <3> QED BY <2>2, <3>1 DEF AcceptOK
  <2>4. ASSUME Begin(s, Ask(s)) PROVE FALSE
    BY <2>2, <2>4 DEF Begin, NoJob, AccountType, Jobs
  <2>5. ASSUME Scan(s) PROVE FALSE
    BY <2>2, <2>3, <2>5 DEF Scan, AccountType, Jobs
  <2>6. ASSUME NEW at \in {"append", "compare", "session", "200", "silent"}, Be(s, at) PROVE FALSE
    BY <2>2, <2>6 DEF Be, AccountType, Jobs
  <2>7. ASSUME Compare(s) PROVE FALSE
    <3>1. PICK at \in {"session", "404"} : Be(s, at) /\ (at = "404" => crypted # job[s].hash)
      BY <2>7 DEF Compare
    <3>2. s = t /\ job[t].at = "compare" /\ crypted # job[t].hash
      BY <2>2, <2>6, <2>7, <3>1, BeEffect DEF Compare
    <3>3. job[t].hash = passwords[Find(job[t].user)].hash
      BY <2>2, <3>2 DEF ThreadOK, LineOK
    <3>4. crypted = <<job[t].text, job[t].hash[2]>> /\ job[t].hash[1] = job[t].text
      BY <2>2, <2>3, <3>2, <3>3 DEF ThreadOK, CryptOK
    <3>5. passwords[Find(job[t].user)] \in Line
      BY <2>2, <2>3, FirstLine, FindFirst DEF AccountType
    <3>6. job[t].hash \in Text \X Salt
      BY <3>3, <3>5 DEF Line
    <3>7. job[t].hash = <<job[t].hash[1], job[t].hash[2]>>
      BY <3>6
    <3> QED BY <3>2, <3>4, <3>7
  <2>8. Begin(s, Ask(s)) \/ Scan(s) \/ Compare(s) \/ Crypt(s) \/ AddLine(s) \/ AddSession(s)
    BY <2>1 DEF Account, AccountStep
  <2>9. ASSUME Crypt(s) \/ AddLine(s) \/ AddSession(s) PROVE FALSE
    BY <2>6, <2>9 DEF Crypt, AddLine, AddSession
  <2> QED BY <2>4, <2>5, <2>7, <2>8, <2>9
<1>2. IInv /\ AskOK /\ AccInv /\ [Next]_vars => [Good]_accounts
  BY <1>1
<1> QED BY <1>2, AccountsInvariant, PTL DEF Spec, AcceptedAgain
-----------------------------------------------------------------------------
(***************************************************************************)
(* The rest of the server's state has its type.                            *)
(***************************************************************************)
CountsOK == /\ up \in BOOLEAN /\ asks \in Asks /\ sessions \in Nat
            /\ \A t \in Thread : th[t].left \in 0..3

\* Only these two change how often a thread is still to call strtok.
LEMMA LeftsKept ==
  ASSUME IInv, Next
  PROVE  (\E t \in Thread : Second(t) \/ Cut(t)) \/ \A t \in Thread : th'[t].left = th[t].left
<1>1. th \in [Thread -> Threads]
  BY DEF IInv, NetType
<1>2. ASSUME NEW t \in Thread, NEW pc, Become(t, pc) PROVE \A s \in Thread : th'[s].left = th[s].left
  BY <1>1, <1>2 DEF Become, Threads
<1>3. ASSUME NEW c \in Client, Connect(c) \/ HangUp(c) \/ Accept(c) PROVE \A s \in Thread : th'[s].left = th[s].left
  BY <1>2, <1>3 DEF Connect, HangUp, Accept, Client
<1>4. CASE Exit
  BY <1>4 DEF Exit
<1>5. ASSUME NEW t \in Thread, Receive(t) \/ Empty(t) \/ First(t) \/ Account(t) \/ Respond(t) \/ Close(t)
      PROVE  \A s \in Thread : th'[s].left = th[s].left
  BY <1>2, <1>5 DEF Receive, Empty, First, Account, Respond, Close
<1>6. ASSUME NEW t \in Thread, Fetch(t) \/ Read(t) \/ Rest(t) PROVE \A s \in Thread : th'[s].left = th[s].left
  BY <1>1, <1>6 DEF Fetch, Read, Rest, Threads
<1>7. ASSUME NEW t \in Thread, Third(t) PROVE \A s \in Thread : th'[s].left = th[s].left
  BY <1>1, <1>7 DEF Third, Threads
<1> QED BY <1>3, <1>4, <1>5, <1>6, <1>7 DEF Next, Listen, Handle

LEMMA CountsNext == IInv /\ CountsOK /\ [Next]_vars => CountsOK'
<1> SUFFICES ASSUME IInv, CountsOK, [Next]_vars PROVE CountsOK'
  OBVIOUS
<1>1. up' \in BOOLEAN /\ asks' \in Asks
  <2>1. up' = up \/ up' = FALSE
    BY DEF vars, Next, Connect, HangUp, Listen, Exit, Accept, Handle, Fetch, Read, Receive, Empty, First,
           Second, Third, Rest, Cut, Account, Respond, Close
  <2>2. asks' = asks
    BY DEF vars, net, Next, Connect, HangUp, Listen, Exit, Accept, Handle, Fetch, Read, Receive, Empty, First,
           Second, Third, Rest, Cut, Account, Respond, Close
  <2> QED BY <2>1, <2>2 DEF CountsOK
<1>2. sessions' \in Nat
  <2>1. ASSUME NEW t \in Thread, Account(t) PROVE sessions' = sessions \/ sessions' = sessions + 1
    BY <2>1 DEF Account, Begin, Scan, AccountStep, Crypt, AddLine, Compare, AddSession
  <2>2. sessions' = sessions \/ sessions' = sessions + 1
    BY <2>1, NextSteps, StepsFrame, SecondFrame DEF accounts, vars
  <2> QED BY <2>2 DEF CountsOK
<1>3. ASSUME NEW s \in Thread PROVE th'[s].left \in 0..3
  <2>1. th \in [Thread -> Threads] /\ th[s].left \in 0..3
    BY DEF IInv, NetType, CountsOK
  <2>2. ASSUME NEW t \in Thread, Second(t) PROVE th'[s].left \in 0..3
    <3>1. Cuts(Ask(t)) \in 0..3
      BY DEF Cuts
    <3>2. th'[s].left = IF s = t THEN Cuts(Ask(t)) ELSE th[s].left
      BY <2>1, <2>2 DEF Second, Threads
    <3> QED BY <2>1, <3>1, <3>2
  <2>3. ASSUME NEW t \in Thread, Cut(t) PROVE th'[s].left \in 0..3
    <3>1. th[t].left > 0
      BY <2>3 DEF Cut
    <3>2. th'[s].left = IF s = t THEN th[s].left - 1 ELSE th[s].left
      BY <2>1, <2>3 DEF Cut, Threads
    <3> QED BY <2>1, <3>1, <3>2
  <2>4. CASE UNCHANGED vars
    BY <2>1, <2>4 DEF vars
  <2> QED BY <2>1, <2>2, <2>3, <2>4, LeftsKept
<1> QED BY <1>1, <1>2, <1>3 DEF CountsOK

(***************************************************************************)
(* TypeOK of Server, with what it says of the requests under way: a thread *)
(* holds the descriptor its request came in on until it is answered,       *)
(* whoever is accepted and closed meanwhile (libemunet.c:49-126).          *)
(***************************************************************************)
THEOREM TypeCorrect == Spec => []TypeOK
<1>1. Init => CountsOK
  BY DEF Init, AccountsInit, Fresh, CountsOK
<1>2. IInv /\ AskOK /\ AccInv /\ CountsOK => TypeOK
  <2> SUFFICES ASSUME IInv, AccInv, CountsOK PROVE TypeOK
    OBVIOUS
  <2>1. saved.of \in Thread \cup {NULL} /\ saved.pid \in Pid
    BY DEF IInv, NetType, Texts
  <2>2. ASSUME NEW t \in Thread
        PROVE  /\ th[t].fd \in Fd \cup {NULL} /\ th[t].on \in Client \cup {NULL}
               /\ th[t].pid \in Pid /\ th[t].left \in 0..3
               /\ th[t].pc \in Working \cup {"none", "start", "read", "wait", "close", "done"}
               /\ th[t].pc \in Working => fds[th[t].fd] = th[t].on
    BY DEF IInv, NetType, Threads, Label, CountsOK, HoldOK, Past
  <2> QED BY <2>1, <2>2 DEF TypeOK, IInv, NetType, AccInv, AccountType, Hash, CountsOK
<1> QED BY <1>1, <1>2, AccountsInvariant, CountsNext, PTL DEF Spec
=============================================================================
