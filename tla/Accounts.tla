------------------------------ MODULE Accounts ------------------------------
(***************************************************************************)
(* Register, Login and AddSession (src/src/libemunet.c): request threads   *)
(* read and append to server/passwords and server/sessions, and share the  *)
(* static buffer that crypt returns.                                       *)
(*                                                                         *)
(* A line of passwords is a user and a hash; a hash is the text and the    *)
(* salt it was made from, since crypt is as good as one-to-one.  A line    *)
(* reaches the file with fclose, in one piece and behind the last.         *)
(***************************************************************************)
EXTENDS Naturals, Sequences, SequencesExt

CONSTANTS Thread,  \* the request threads
          User, Text,
          Salt,    \* the times at which somebody registers
          Tail1,   \* Tail1[u]: the name u from its third character on
          Files,   \* what server/passwords may hold when the server starts
          NULL

Line == [user : User, hash : Text \X Salt]

ASSUME AccountsAssumption ==
  Tail1 \in [User -> Text] /\ \A f \in Files : f \in Seq(Line) \ {<<>>}

VARIABLES passwords,
          sessions,  \* how many lines server/sessions got
          crypted,   \* crypt's buffer
          job,       \* what each thread is doing here
          accepted,  \* history: users and passwords of logins that succeeded
          doubled,   \* history: users with registrations that overlapped
          muddled    \* history: threads whose hash another one's replaced

accounts == <<passwords, sessions, crypted, job, accepted, doubled, muddled>>

NoJob == [at |-> "none", kind |-> "none", user |-> NULL, text |-> NULL, hash |-> NULL]

AccountsInit == /\ passwords \in Files
                /\ sessions = 0 /\ crypted = NULL
                /\ job = [t \in Thread |-> NoJob]
                /\ accepted = {} /\ doubled = {} /\ muddled = {}

Be(t, at) == job' = [job EXCEPT ![t].at = at]

\* The parameters are cut in two; Register's cut leaves as the password what
\* follows the second character of the name.
Begin(t, ask) ==
  /\ job' = [job EXCEPT ![t] = [NoJob EXCEPT
       !.at = "scan", !.kind = ask.kind, !.user = ask.user,
       !.text = IF ask.kind = "register" THEN Tail1[ask.user] ELSE ask.text]]
  /\ UNCHANGED <<passwords, sessions, crypted, accepted, doubled, muddled>>

\* Mutant of Find: the last line is not looked at.
FindLess(u) == SelectInSeq(Front(passwords), LAMBDA l : l.user = u)

\* The first line of a user, 0 if there is none.
Find(u) == SelectInSeq(passwords, LAMBDA l : l.user = u)

\* The file is opened, read up to the line, and closed.
Scan(t) ==
  LET line  == Find(job[t].user)
      taken == line # 0
  IN  /\ job[t].at = "scan"
      /\ job' = [job EXCEPT ![t].at = IF taken = (job[t].kind = "login") THEN "crypt" ELSE "404",
                            ![t].hash = IF taken THEN passwords[line].hash ELSE NULL]
      /\ UNCHANGED <<passwords, sessions, crypted, accepted, doubled, muddled>>

\* Register takes the time as its salt, Login the salt of the line.
Crypt(t) ==
  /\ job[t].at = "crypt"
  /\ \E s \in Salt : /\ job[t].kind = "login" => s = job[t].hash[2]
                     /\ crypted' = <<job[t].text, s>>
  /\ Be(t, IF job[t].kind = "register" THEN "append" ELSE "compare")
  /\ muddled' = muddled \cup {s \in Thread \ {t} : job[s].at \in {"append", "compare"}}
  /\ UNCHANGED <<passwords, sessions, accepted, doubled>>

\* Registrations of the same name that have not found it either.
Rivals(t) == {s \in Thread \ {t} : /\ job[s].kind = "register" /\ job[s].user = job[t].user
                                   /\ job[s].at \in {"crypt", "append"}}

\* Mutant of AddLine: the file is opened with "w".
AddLineAlone(t) ==
  /\ job[t].at = "append"
  /\ passwords' = <<[user |-> job[t].user, hash |-> crypted]>>
  /\ doubled' = IF Rivals(t) = {} THEN doubled ELSE doubled \cup {job[t].user}
  /\ Be(t, "silent")
  /\ UNCHANGED <<sessions, crypted, accepted, muddled>>

\* A registration that succeeds is not answered.
AddLine(t) ==
  /\ job[t].at = "append"
  /\ passwords' = Append(passwords, [user |-> job[t].user, hash |-> crypted])
  /\ doubled' = IF Rivals(t) = {} THEN doubled ELSE doubled \cup {job[t].user}
  /\ Be(t, "silent")
  /\ UNCHANGED <<sessions, crypted, accepted, muddled>>

Compare(t) ==
  /\ job[t].at = "compare"
  /\ Be(t, IF crypted = job[t].hash THEN "session" ELSE "404")
  /\ UNCHANGED <<passwords, sessions, crypted, accepted, doubled, muddled>>

AddSession(t) ==
  /\ job[t].at = "session"
  /\ sessions' = sessions + 1
  /\ accepted' = IF t \in muddled THEN accepted
                 ELSE accepted \cup {<<job[t].user, job[t].text>>}
  /\ Be(t, "200")
  /\ UNCHANGED <<passwords, crypted, doubled, muddled>>

AccountStep(t) == Crypt(t) \/ AddLine(t) \/ Compare(t) \/ AddSession(t)
-----------------------------------------------------------------------------
(***************************************************************************)
(* A name gets a second line only if two registrations of it overlapped:   *)
(* the file is read, closed and opened again to be written                 *)
(* (libemunet.c:164-190).                                                  *)
(***************************************************************************)
NamesUnique ==
  [][passwords' # passwords =>
       LET u == Last(passwords').user
       IN  u \in doubled' \/ \A i \in DOMAIN passwords : passwords[i].user # u]_accounts

(***************************************************************************)
(* What was accepted as a user's password once is accepted every time,     *)
(* whoever registers in between and whatever else the file holds, unless   *)
(* another thread's crypt came between a login's and its comparison        *)
(* (libemunet.c:218-244).                                                  *)
(***************************************************************************)
AcceptedAgain ==
  [][\A t \in Thread :
       job[t].kind = "login" /\ job[t].at # "404" /\ job'[t].at = "404" /\ t \notin muddled
         => <<job[t].user, job[t].text>> \notin accepted]_accounts
=============================================================================
