---------------------------- MODULE HttpControl ----------------------------
(***************************************************************************)
(* A command for a robot: the CGI program (CGI/cgi.c), one process for each   *)
(* request of the web server, and the thread of the robot server that takes   *)
(* its message (server/src/socket.c).                                        *)
(*                                                                         *)
(* A field of the request is the list of its characters, each with the       *)
(* process it came from; of other values only what cgi.c tells apart is kept.  *)
(* RobotServer models how a robot gets its place in the table, and HttpClient  *)
(* how _write waits.                                                       *)
(***************************************************************************)
EXTENDS Integers, Sequences, FiniteSets

CONSTANTS
  Callers,     \* CGI processes
  Targets,     \* the robot that each of them asks for
  Fields,      \* what its fields "type", "nid" and "gid" are: a length, Missing or Number
  Contents,    \* what CONTENT_LENGTH is, against the length of the body: "exact", "less", ...
  MaxMoves     \* bound on robots that come and go

Missing == -1
Number  == -2   \* a JSON number, whose valuestring is NULL

VARIABLES
  cpc,      \* each process
  fields,   \* its request
  content,  \* and its CONTENT_LENGTH
  output,   \* what it printed
  backlog,  \* connections that wait for accept
  spc,      \* HttpServer
  served,   \* the process that it serves
  buf,      \* static: what earlier messages left stays
  online,   \* robots with rhiv > 0
  back,     \* the answer
  handed,   \* commands given to _write: the robot, the 1 + 8 characters, and what became of it
  answers,  \* what each process can receive: an answer, or the end of its connection
  moves

controlVars == <<cpc, fields, content, output, backlog, spc, served, buf, online, back,
                 handed, answers, moves>>

Nobody == 0
Zeros == [i \in 1..25 |-> <<Nobody, "zero", 0>>]

ControlInit ==
  /\ cpc = [c \in Callers |-> "main"]
  /\ fields \in [Callers -> Fields] /\ content \in [Callers -> Contents]
  /\ output = [c \in Callers |-> "none"]
  /\ backlog = <<>> /\ spc = "accept" /\ served = Nobody
  /\ buf = Zeros
  /\ online = {} /\ back = "none" /\ handed = <<>>
  /\ answers = [c \in Callers |-> "none"] /\ moves = 0

-----------------------------------------------------------------------------
(* The CGI process                                                         *)

Characters(c, name, n) == [i \in 1..n |-> <<c, name, i>>]
Proper == <<1, 8, 16>>
Message(c) ==
  Characters(c, "type", fields[c][1]) \o Characters(c, "nid", fields[c][2])
    \o Characters(c, "gid", fields[c][3])

\* main reads as many bytes as CONTENT_LENGTH says and there are.  parseJson takes the
\* fields in turn: one that is missing ends it, and the NULL string of a number in a
\* field before that ends the process; the three must be 25 characters in all.  Fields
\* of more characters than msg has run over its end, and what they run over may end the
\* process, or not before it has said that the data are invalid.
parseJson(c) ==
  LET bad == {k \in 1..3 : fields[c][k] \in {Missing, Number}}
      first == CHOOSE k \in bad : \A j \in bad : k <= j
      taken(k) == IF \E j \in 1..k : j \in bad THEN 0 ELSE fields[c][k]
      tooLong == taken(1) + taken(2) + taken(3) > 127
      does == IF bad # {} THEN IF fields[c][first] = Missing THEN "none" ELSE "fault"
              ELSE IF Len(Message(c)) = 25 THEN "control" ELSE "Invalid json data!"
  IN IF content[c] = "less" THEN {"Invalid json format!"}
     ELSE {does} \cup IF tooLong THEN {"fault"} ELSE {}

Main(c) ==
  /\ cpc[c] = "main"
  /\ \E does \in parseJson(c) :
       IF does = "control"
       THEN cpc' = [cpc EXCEPT ![c] = "connect"] /\ UNCHANGED output
       ELSE cpc' = [cpc EXCEPT ![c] = "end"] /\ output' = [output EXCEPT ![c] = does]
  /\ UNCHANGED <<fields, content, backlog, spc, served, buf, online, back, handed, answers, moves>>

\* The connection, which HttpServer has to accept; or nobody listens.
Connect(c) ==
  /\ cpc[c] = "connect"
  /\ \/ cpc' = [cpc EXCEPT ![c] = "send"] /\ backlog' = Append(backlog, c)
     \/ cpc' = [cpc EXCEPT ![c] = "end"] /\ UNCHANGED backlog
  /\ UNCHANGED <<fields, content, output, spc, served, buf, online, back, handed, answers, moves>>

\* send, or the web server ends the process before it: its socket is closed.
Send(c) ==
  /\ cpc[c] = "send"
  /\ \E to \in {"recv", "killed"} : cpc' = [cpc EXCEPT ![c] = to]
  /\ UNCHANGED <<fields, content, output, backlog, spc, served, buf, online, back, handed, answers, moves>>

\* The first character of the answer is printed as a number: -48 when there is none.
Recv(c) ==
  /\ cpc[c] = "recv" /\ answers[c] # "none"
  /\ cpc' = [cpc EXCEPT ![c] = "end"]
  /\ output' = [output EXCEPT ![c] = answers[c]]
  /\ UNCHANGED <<fields, content, backlog, spc, served, buf, online, back, handed, answers, moves>>

-----------------------------------------------------------------------------
(* HttpServer                                                              *)

Accept ==
  /\ spc = "accept" /\ backlog # <<>>
  /\ spc' = "recv" /\ served' = Head(backlog) /\ backlog' = Tail(backlog)
  /\ UNCHANGED <<cpc, fields, content, output, buf, online, back, handed, answers, moves>>

Serves(to) ==
  /\ spc' = to
  /\ UNCHANGED <<cpc, fields, content, output, backlog, online, answers, moves>>

\* recv gives the message, which one send put into one segment; or 0 for a process that
\* ended: then buf stays as it is.
Received ==
  /\ cpc[served] \in {"recv", "killed"}
  /\ buf' = IF cpc[served] = "recv" THEN Message(served) ELSE buf
  /\ Serves("find")
  /\ UNCHANGED <<served, back, handed>>

CloseServed(with) ==
  /\ answers' = [answers EXCEPT ![served] = with]
  /\ spc' = "accept" /\ served' = Nobody
  /\ UNCHANGED <<cpc, fields, content, output, backlog, buf, online, back, handed, moves>>

\* Or it fails, and the connection is closed without an answer.
ServerRecv == spc = "recv" /\ (Received \/ CloseServed("-48"))

\* The robot whose serial number buf has.
Asked == {c \in Callers : SubSeq(buf, 10, 25) = Characters(c, "gid", 16)}
Found == {Targets[c] : c \in Asked} \cap online

\* The word is the type and the eight characters as a number of four bytes.  What _write
\* returns is not looked at, and the answer is set before.
GiveToWrite ==
  \E r \in Found, done \in BOOLEAN :
    handed' = Append(handed, [to |-> r, word |-> SubSeq(buf, 1, 9), written |-> done])

\* Mutant: the answer is not set for a robot that is away.
AnswerStays ==
  /\ spc = "find"
  /\ IF Found = {} THEN UNCHANGED <<back, handed>>
     ELSE back' = "1" /\ GiveToWrite
  /\ Serves("send")
  /\ UNCHANGED <<served, buf>>

WriteWord ==
  /\ spc = "find"
  /\ IF Found = {} THEN back' = "0" /\ UNCHANGED handed
     ELSE back' = "1" /\ GiveToWrite
  /\ Serves("send")
  /\ UNCHANGED <<served, buf>>

\* send, which may fail: that is logged.
SendAndClose == spc = "send" /\ (CloseServed(back) \/ CloseServed("-48"))

RobotMoves(r) ==
  /\ moves < MaxMoves /\ moves' = moves + 1
  /\ online' = IF r \in online THEN online \ {r} ELSE online \cup {r}
  /\ UNCHANGED <<cpc, fields, content, output, backlog, spc, served, buf, back, handed, answers>>

Cgi(c) == Main(c) \/ Connect(c) \/ Send(c) \/ Recv(c)
HttpServer == Accept \/ ServerRecv \/ WriteWord \/ SendAndClose
ControlNext ==
  (\E c \in Callers : Cgi(c)) \/ HttpServer \/ \E c \in Callers : RobotMoves(Targets[c])
ControlSpec == ControlInit /\ [][ControlNext]_controlVars
ControlFair == (\A c \in Callers : WF_controlVars(Cgi(c))) /\ WF_controlVars(HttpServer)

-----------------------------------------------------------------------------
(* Properties                                                              *)

ControlTypeOK ==
  /\ served \in Callers \cup {Nobody} /\ Len(buf) = 25
  /\ back \in {"none", "0", "1"}

WordOf(c) == Characters(c, "type", 1) \o Characters(c, "nid", 8)
Commands(c) == {k \in 1..Len(handed) : handed[k].to = Targets[c] /\ handed[k].word = WordOf(c)}
Sent(c) == cpc[c] \in {"recv", "end"}

\* A robot is sent only what some process sent for that very robot, and the type and
\* number are those of its request, though all messages pass through one buffer that is
\* never cleared (cgi.c:67-95, socket.c:164-182).
CommandsAreAsked ==
  \A k \in 1..Len(handed) : \E c \in Callers :
    /\ Sent(c) /\ handed[k].to = Targets[c]
    /\ fields[c] = Proper => handed[k].word = WordOf(c)

\* A process that prints success had its own command given to _write for its own robot.
\* That is all that the answer says: it is set before _write, whose result is ignored, so
\* success is printed for a command that a failing write lost, too (socket.c:174-182).
SuccessIsHanded ==
  \A c \in Callers : output[c] = "1" /\ fields[c] = Proper => Commands(c) # {}

\* The command of a request is given to _write once, and again only for a process that
\* ended before it sent: recv then gives 0, which is no error to the thread, and the
\* buffer still has the last message (socket.c:164-182).
RepeatsAreOfKilled ==
  \A c \in Callers : fields[c] = Proper =>
    Cardinality(Commands(c)) <= 1 + Cardinality({d \in Callers : cpc[d] = "killed"})

\* Every process that sent its message comes to its end: it is answered, or finds its
\* connection closed without an answer because recv or send failed (socket.c:164-190).
IsAnswered == \A c \in Callers : cpc[c] = "recv" ~> cpc[c] = "end"
=============================================================================
