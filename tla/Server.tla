------------------------------- MODULE Server -------------------------------
(***************************************************************************)
(* Listen, HandleRequest and GetEndpoint (src/src/libemunet.c): one thread *)
(* accepts connections and starts a thread for each, which is handed the   *)
(* address of the one local NewSocket.  All threads share the file         *)
(* descriptors and the position that strtok keeps.                         *)
(*                                                                         *)
(* A client makes one connection with at most one request, which one read  *)
(* delivers; a browser may open a connection and never send on it.         *)
(* Threads are named by the client whose connection they were started for, *)
(* which need not be the one they serve.  What the handlers of processes   *)
(* do is in Lifecycle and Cpu; here they answer.                           *)
(***************************************************************************)
EXTENDS Accounts, FiniteSetsExt

CONSTANTS Fd,      \* the descriptors that are left for connections
          MaxPid,  \* bound: Pids; MaxPid also stands for numbers of no process
          Asks     \* which clients ask for what

Client == Thread
Pid    == 0..MaxPid

Request == [kind : {"none", "page"}] \cup [kind : {"poll", "key", "create"}, pid : Pid]
           \cup [kind : {"register"}, user : User] \cup [kind : {"login"}, user : User, text : Text]

ASSUME ServerAssumption ==
  /\ Fd \subseteq Nat /\ NULL \notin Fd \cup Thread
  /\ MaxPid \in Nat /\ \A a \in Asks : a \in [Client -> Request]

VARIABLES up,        \* the program has not exited or crashed
          asks,
          link,      \* each client's connection
          unread,    \* clients whose request is in the socket
          answers,   \* answers[c]: what was sent on c's connection
          fds,       \* fds[f]: whose connection descriptor f is
          NewSocket,
          th,        \* the request threads
          saved,     \* strtok's position: the text behind it, whose it is
          overtaken, \* history: clients whose descriptor no thread was given
          crossed    \* history: threads whose second and third strtok another one came between

net   == <<asks, link, unread, answers, fds, NewSocket, overtaken>>
parse == <<saved, crossed>>
vars  == <<accounts, up, net, th, parse>>

NoText == [of |-> NULL, text |-> "none", pid |-> 0]
Fresh  == [pc |-> "none", fd |-> NULL, on |-> NULL, pid |-> 0, rest |-> NoText, left |-> 0]

Init == /\ AccountsInit
        /\ up = TRUE
        /\ asks \in Asks
        /\ link = [c \in Client |-> "none"] /\ unread = {}
        /\ answers = [c \in Client |-> <<>>]
        /\ fds = [f \in Fd |-> NULL] /\ NewSocket = NULL
        /\ th = [t \in Thread |-> Fresh]
        /\ saved = NoText
        /\ overtaken = {} /\ crossed = {}

At(t, pc)     == up /\ th[t].pc = pc
Become(t, pc) == th' = [th EXCEPT ![t].pc = pc]
Ask(t)        == asks[th[t].on]
-----------------------------------------------------------------------------
(***************************************************************************)
(* Clients.                                                                *)
(***************************************************************************)
Connect(c) == /\ up /\ link[c] = "none"
              /\ link' = [link EXCEPT ![c] = "waiting"]
              /\ unread' = IF asks[c].kind = "none" THEN unread ELSE unread \cup {c}
              /\ UNCHANGED <<accounts, up, asks, answers, fds, NewSocket, overtaken, th, parse>>

\* Once it has its answer, or was closed, or has nothing to ask.
HangUp(c) == /\ up /\ link[c] = "open"
             /\ asks[c].kind = "none" \/ answers[c] # <<>> \/ \A f \in Fd : fds[f] # c
             /\ link' = [link EXCEPT ![c] = "over"]
             /\ UNCHANGED <<accounts, up, asks, unread, answers, fds, NewSocket, overtaken, th, parse>>
-----------------------------------------------------------------------------
(***************************************************************************)
(* Listen.                                                                 *)
(***************************************************************************)
FreeFd == {f \in Fd : fds[f] = NULL}

\* Clients whose descriptor is in NewSocket and was not fetched.
Missed == {c \in Client : /\ NewSocket # NULL /\ fds[NewSocket] = c
                          /\ \A t \in Thread : th[t].fd = NewSocket =>
                               th[t].pc # "read" /\ th[t].on # c}

\* Mutant of Accept: pthread_join for pthread_detach.
AcceptJoined(c) ==
  LET f == Min(FreeFd)
  IN  /\ up /\ link[c] = "waiting" /\ FreeFd # {}
      /\ \A t \in Thread : th[t].pc \in {"none", "done"}
      /\ link' = [link EXCEPT ![c] = "open"]
      /\ fds' = [fds EXCEPT ![f] = c]
      /\ NewSocket' = f
      /\ overtaken' = overtaken \cup Missed
      /\ Become(c, "start")
      /\ UNCHANGED <<accounts, up, asks, unread, answers, parse>>

\* accept, which takes the lowest descriptor, and pthread_create.
Accept(c) ==
  LET f == Min(FreeFd)
  IN  /\ up /\ link[c] = "waiting" /\ FreeFd # {}
      /\ link' = [link EXCEPT ![c] = "open"]
      /\ fds' = [fds EXCEPT ![f] = c]
      /\ NewSocket' = f
      /\ overtaken' = overtaken \cup Missed
      /\ Become(c, "start")
      /\ UNCHANGED <<accounts, up, asks, unread, answers, parse>>

\* Without a descriptor accept fails.
Exit == /\ up /\ FreeFd = {} /\ \E c \in Client : link[c] = "waiting"
        /\ up' = FALSE
        /\ UNCHANGED <<accounts, net, th, parse>>

Listen == Exit \/ \E c \in Client : Accept(c)
-----------------------------------------------------------------------------
(***************************************************************************)
(* HandleRequest until the request is read.                                *)
(***************************************************************************)
Fetch(t) == /\ At(t, "start")
            /\ th' = [th EXCEPT ![t].pc = "read", ![t].fd = NewSocket]
            /\ UNCHANGED <<accounts, up, net, parse>>

\* read keeps to the connection the descriptor refers to when it is called;
\* if that was closed, the Buffer stays empty.
Read(t) == LET c == fds[th[t].fd]
           IN  /\ At(t, "read")
               /\ th' = [th EXCEPT ![t].on = c, ![t].pc = IF c = NULL THEN "done" ELSE "wait"]
               /\ UNCHANGED <<accounts, up, net, parse>>

Receive(t) == /\ At(t, "wait") /\ th[t].on \in unread
              /\ unread' = unread \ {th[t].on}
              /\ Become(t, "first")
              /\ UNCHANGED <<accounts, up, asks, link, answers, fds, NewSocket, overtaken, parse>>

\* strlen(Buffer) == 0: the thread returns, and closes nothing.
Empty(t) == /\ At(t, "wait") /\ th[t].on \notin unread /\ link[th[t].on] = "over"
            /\ Become(t, "done")
            /\ UNCHANGED <<accounts, up, net, parse>>
-----------------------------------------------------------------------------
(***************************************************************************)
(* GetEndpoint.  A text is what lies behind strtok's position: "line" the  *)
(* path and what follows it, "query" the query of a poll, "head" what      *)
(* follows the path or the query, "word" a last word, "end" nothing.       *)
(***************************************************************************)
Left(t, text, pid) == [of |-> t, text |-> text, pid |-> pid]

Store(t, text) == /\ saved' = text
                  /\ crossed' = crossed \cup {s \in Thread \ {t} : th[s].pc = "third"}

Get(ask) == ask.kind \in {"poll", "page"}

\* Mutant of Behind: the query is skipped.
BehindAll(ask) == <<"head", 0>>

\* What the second strtok leaves of the line.
Behind(ask) == IF ask.kind = "poll" THEN <<"query", ask.pid>> ELSE <<"head", 0>>

\* The request's copy is freed with GetEndpoint, what a handler cuts lies in
\* its stack.
Gone(x) == IF x.text = "word" THEN th[x.of].pc = "done"
           ELSE th[x.of].pc \notin {"second", "third", "rest"}

\* The number in the next word; NULL if there is none, which strncpy does
\* not survive.  Freed memory may hold anything.
Number(x) == CASE Gone(x) -> Pid \cup {NULL}
               [] x.text = "end" -> {NULL}
               [] x.text = "query" -> {x.pid}
               [] x.text = "word" -> Pid
               [] OTHER -> {0}

First(t) == /\ At(t, "first")
            /\ Store(t, Left(t, "line", 0))
            /\ Become(t, "second")
            /\ UNCHANGED <<accounts, up, net>>

\* How often the handlers of POST requests call strtok.
Cuts(ask) == CASE ask.kind = "key" -> 3 [] ask.kind = "create" -> 1 [] OTHER -> 0

\* The parameters of a POST are the thread's own.
Second(t) ==
  LET ask == Ask(t)
  IN  /\ At(t, "second")
      /\ Store(t, Left(t, Behind(ask)[1], Behind(ask)[2]))
      /\ th' = [th EXCEPT ![t].pc = IF Get(ask) THEN "third"
                                    ELSE IF ask.kind \in {"register", "login"} THEN "account"
                                    ELSE "cut",
                          ![t].left = Cuts(ask),
                          ![t].pid = IF ask.kind \in {"key", "create"} THEN ask.pid ELSE 0]
      /\ UNCHANGED <<accounts, up, net>>

\* strtok(NULL) loads the position ...
Third(t) == /\ At(t, "third")
            /\ \E n \in Number(saved) :
                 IF n = NULL THEN up' = FALSE /\ UNCHANGED th
                 ELSE /\ th' = [th EXCEPT ![t].pc = "rest", ![t].pid = n,
                                  ![t].rest = Left(saved.of, IF saved.text = "word" THEN "end" ELSE "head", 0)]
                      /\ UNCHANGED up
            /\ UNCHANGED <<accounts, net, parse>>

\* ... and stores it behind the word.
Rest(t) == /\ At(t, "rest")
           /\ Store(t, th[t].rest)
           /\ th' = [th EXCEPT ![t].pc = "cut", ![t].rest = NoText]
           /\ UNCHANGED <<accounts, up, net>>
-----------------------------------------------------------------------------
(***************************************************************************)
(* The handlers.                                                           *)
(***************************************************************************)
Cut(t) == /\ At(t, "cut") /\ th[t].left > 0
          /\ Store(t, Left(t, "word", 0))
          /\ th' = [th EXCEPT ![t].left = @ - 1]
          /\ UNCHANGED <<accounts, up, net>>

\* Register and Login cut the parameters, then every line.
Account(t) == /\ At(t, "account")
              /\ \/ /\ job[t].at = "none"
                    /\ Begin(t, Ask(t)) /\ Store(t, Left(t, "word", 0))
                 \/ Scan(t) /\ Store(t, Left(t, "word", 0))
                 \/ AccountStep(t) /\ UNCHANGED parse
              /\ UNCHANGED <<up, net, th>>

Ready(t) == \/ At(t, "cut") /\ th[t].left = 0
            \/ At(t, "account") /\ job[t].at \in {"200", "404", "silent"}

\* Mutant of Respond: the descriptor is taken from NewSocket again.
RespondToLast(t) ==
  LET c == fds[NewSocket]
  IN  /\ Ready(t)
      /\ answers' = IF c = NULL \/ job[t].at = "silent" THEN answers
                    ELSE [answers EXCEPT ![c] = Append(@, [to |-> th[t].on, pid |-> th[t].pid])]
      /\ Become(t, "close")
      /\ UNCHANGED <<accounts, up, asks, link, unread, fds, NewSocket, overtaken, parse>>

\* The answer goes to the connection the descriptor refers to now.
Respond(t) ==
  LET c == fds[th[t].fd]
  IN  /\ Ready(t)
      /\ answers' = IF c = NULL \/ job[t].at = "silent" THEN answers
                    ELSE [answers EXCEPT ![c] = Append(@, [to |-> th[t].on, pid |-> th[t].pid])]
      /\ Become(t, "close")
      /\ UNCHANGED <<accounts, up, asks, link, unread, fds, NewSocket, overtaken, parse>>

\* Mutant of Close: not after a login or a registration.
CloseSome(t) == /\ At(t, "close")
                /\ fds' = IF job[t].at = "none" THEN [fds EXCEPT ![th[t].fd] = NULL] ELSE fds
                /\ Become(t, "done")
                /\ UNCHANGED <<accounts, up, asks, link, unread, answers, NewSocket, overtaken, parse>>

Close(t) == /\ At(t, "close")
            /\ fds' = [fds EXCEPT ![th[t].fd] = NULL]
            /\ Become(t, "done")
            /\ UNCHANGED <<accounts, up, asks, link, unread, answers, NewSocket, overtaken, parse>>

Handle(t) == \/ Fetch(t) \/ Read(t) \/ Receive(t) \/ Empty(t)
             \/ First(t) \/ Second(t) \/ Third(t) \/ Rest(t)
             \/ Cut(t) \/ Account(t) \/ Respond(t) \/ Close(t)

Next == \/ Listen
        \/ \E c \in Client : Connect(c) \/ HangUp(c)
        \/ \E t \in Thread : Handle(t)

Spec == Init /\ [][Next]_vars

\* accept returns when a client waits, and every thread goes on.
FairSpec == Spec /\ WF_vars(Listen) /\ \A t \in Thread : WF_vars(Handle(t))
-----------------------------------------------------------------------------
Working == {"first", "second", "third", "rest", "cut", "account"}

\* A thread that has a request holds the descriptor it came in on.
TypeOK ==
  /\ up \in BOOLEAN /\ asks \in Asks
  /\ link \in [Client -> {"none", "waiting", "open", "over"}] /\ unread \subseteq Client
  /\ fds \in [Fd -> Client \cup {NULL}] /\ NewSocket \in Fd \cup {NULL}
  /\ saved.of \in Thread \cup {NULL} /\ saved.pid \in Pid
  /\ \A t \in Thread : /\ th[t].fd \in Fd \cup {NULL} /\ th[t].on \in Client \cup {NULL}
                       /\ th[t].pid \in Pid /\ th[t].left \in 0..3
                       /\ th[t].pc \in Working \cup {"none", "start", "read", "wait", "close", "done"}
                       /\ th[t].pc \in Working => fds[th[t].fd] = th[t].on
  /\ crypted \in (Text \X Salt) \cup {NULL} /\ sessions \in Nat

(***************************************************************************)
(* An answer goes to the client whose request it answers, and no client    *)
(* gets two, though threads may be given the same descriptor, and one that *)
(* is closed and used for another connection meanwhile                     *)
(* (libemunet.c:49-76, 119).                                               *)
(***************************************************************************)
AnswersOwn == \A c \in Client : Len(answers[c]) <= 1 /\ \A i \in DOMAIN answers[c] : answers[c][i].to = c

(***************************************************************************)
(* A poll is answered for the Pid it asked for, unless another thread      *)
(* called strtok between its second and third call (libemunet.c:128-140,   *)
(* 361-395).                                                               *)
(***************************************************************************)
AskedPid == \A c \in Client : \A i \in DOMAIN answers[c] :
  asks[c].kind \in {"poll", "key"} /\ (\A t \in crossed : th[t].on # c) => answers[c][i].pid = asks[c].pid

(***************************************************************************)
(* A descriptor in use is one that a thread has, or is about to get, or    *)
(* one the code is known to lose: of a client that never sent, or of one   *)
(* that was accepted before the last thread had fetched its descriptor     *)
(* (libemunet.c:51-56, 65, 76).                                            *)
(***************************************************************************)
DescriptorsAccounted ==
  \A f \in Fd : fds[f] # NULL =>
    \/ \E t \in Thread : th[t].fd = f /\ th[t].pc \notin {"done", "start"}
    \/ NewSocket = f /\ \E t \in Thread : th[t].pc = "start"
    \/ fds[f] \in overtaken
    \/ asks[fds[f]].kind = "none" /\ link[fds[f]] = "over"

(***************************************************************************)
(* Whoever sends a request is answered, however long others keep their     *)
(* connection open without one - unless its connection was overtaken, or   *)
(* the program has ended (libemunet.c:49-57).                              *)
(***************************************************************************)
Answered == \A c \in Client :
  (c \in unread /\ asks[c].kind # "register") ~> (answers[c] # <<>> \/ c \in overtaken \/ ~up)
=============================================================================
