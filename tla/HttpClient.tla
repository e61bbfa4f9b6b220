----------------------------- MODULE HttpClient -----------------------------
(***************************************************************************)
(* The servers as clients: post (server/src/robot.c, and its test              *)
(* server/post.c), GisCommit (sms.c of both servers), and the command written  *)
(* to a robot (server/src/socket.c).  All of them send with _write             *)
(* (public.c), which waits with select and writes what the kernel takes.       *)
(*                                                                         *)
(* Each is a list of steps; a step that fails ends the call with 0.            *)
(***************************************************************************)
EXTENDS Integers, Sequences

CONSTANTS
  Clients,   \* the calls that are checked: names of Program's fields
  Length,    \* the bytes of the request
  Room       \* what the kernel takes before the peer reads

VARIABLES
  client, step,      \* who calls, and the step it is in; 0: it has returned
  sock,              \* "none", "open", "closed"
  select,            \* _write has been told that the socket is writable
  left,              \* bytes still to write
  written,           \* the bytes the kernel took, as their places in the request
  unread,            \* how many of them the peer has not read
  answer,            \* parts of an answer on their way
  gone,              \* the peer has closed
  row,               \* the row was stored
  result             \* what the call returned: "index" is an uninitialized number

httpVars == <<client, step, sock, select, left, written, unread, answer, gone, row, result>>

post        == <<"connect", "write", "recv", "close">>
post_test   == <<"connect", "write", "recv", "close">>
GisCommit   == <<"lookup", "connect", "write", "recv", "close">>
GisStore    == <<"lookup", "insert", "connect", "write", "recv", "close">>
\* word goes to the socket of the robot, which stays open.
HttpCommand == <<"write">>
Program == [post |-> post, test |-> post_test, sms |-> GisCommit, gis |-> GisStore, command |-> HttpCommand]

doing(s) == step > 0 /\ Program[client][step] = s

HttpInit ==
  /\ client \in Clients /\ step = 1
  /\ sock = IF client = "command" THEN "open" ELSE "none"
  /\ select = FALSE /\ left = Length /\ written = <<>> /\ unread = 0
  /\ answer = 0 /\ gone = FALSE /\ row = FALSE /\ result = "none"

Return(r) == step' = 0 /\ result' = r
GoOn == IF step = Len(Program[client]) THEN Return("one") ELSE step' = step + 1 /\ UNCHANGED result

-----------------------------------------------------------------------------
(* The calls                                                               *)

\* A name that has no address: no socket was made yet.
GetIp ==
  /\ doing("lookup")
  /\ GoOn \/ Return("zero")
  /\ UNCHANGED <<client, sock, select, left, written, unread, answer, gone, row>>

\* The result of DbInsert is not looked at.
InsertRow ==
  /\ doing("insert")
  /\ row' \in BOOLEAN
  /\ GoOn
  /\ UNCHANGED <<client, sock, select, left, written, unread, answer, gone>>

Connect ==
  /\ doing("connect")
  /\ \/ sock' = "open" /\ GoOn
     \/ sock' = "closed" /\ Return("zero")
  /\ UNCHANGED <<client, select, left, written, unread, answer, gone, row>>

\* The call ends when _write returns 0; the callers but the command thread close.
WriteFails ==
  /\ sock' = IF client = "command" THEN sock ELSE "closed"
  /\ Return("zero")

\* select: interrupted, or ready.  Two seconds without room: it is called again.
Select ==
  /\ doing("write") /\ ~select /\ left > 0
  /\ \/ WriteFails /\ UNCHANGED select
     \/ (unread < Room \/ gone) /\ select' = TRUE /\ UNCHANGED <<sock, step, result>>
  /\ UNCHANGED <<client, left, written, unread, answer, gone, row>>

WriteSome ==
  /\ doing("write") /\ select /\ ~gone
  /\ \E n \in 1..Length :
       /\ n <= left /\ n <= Room - unread
       /\ written' = written \o [k \in 1..n |-> Length - left + k]
       /\ unread' = unread + n
       /\ left' = left - n
  /\ select' = FALSE
  /\ UNCHANGED <<client, step, sock, answer, gone, row, result>>

\* Mutant: the -1 of an interrupted write is counted.
WriteAgainCounts ==
  /\ doing("write") /\ select /\ left < Length
  /\ left' = left + 1
  /\ select' = FALSE
  /\ UNCHANGED <<client, step, sock, written, unread, answer, gone, row, result>>

\* EINTR or EAGAIN: nothing was written.
WriteAgain ==
  /\ doing("write") /\ select
  /\ select' = FALSE
  /\ UNCHANGED <<client, step, sock, left, written, unread, answer, gone, row, result>>

WriteError ==
  /\ doing("write") /\ select /\ gone
  /\ WriteFails
  /\ UNCHANGED <<client, select, left, written, unread, answer, gone, row>>

Written ==
  /\ doing("write") /\ left = 0
  /\ GoOn
  /\ UNCHANGED <<client, sock, select, left, written, unread, answer, gone, row>>

\* recv blocks until there is a part of the answer, or the peer has closed.
Recv ==
  /\ doing("recv")
  /\ \/ answer > 0 /\ answer' = answer - 1 /\ UNCHANGED <<step, result>>
     \/ answer = 0 /\ gone /\ GoOn /\ UNCHANGED answer
  /\ UNCHANGED <<client, sock, select, left, written, unread, gone, row>>

Close ==
  /\ doing("close")
  /\ sock' = "closed"
  /\ Return("index")
  /\ UNCHANGED <<client, select, left, written, unread, answer, gone, row>>

-----------------------------------------------------------------------------
(* The peer                                                                *)

PeerReads ==
  /\ sock = "open" /\ ~gone /\ unread > 0
  /\ unread' = 0
  /\ UNCHANGED <<client, step, sock, select, left, written, answer, gone, row, result>>

PeerAnswers ==
  /\ sock = "open" /\ ~gone /\ Len(written) = Length /\ unread = 0 /\ answer < 2
  /\ answer' = answer + 1
  /\ UNCHANGED <<client, step, sock, select, left, written, unread, gone, row, result>>

PeerCloses ==
  /\ sock = "open" /\ ~gone
  /\ gone' = TRUE
  /\ UNCHANGED <<client, step, sock, select, left, written, unread, answer, row, result>>

HttpCall ==
  \/ GetIp \/ InsertRow \/ Connect \/ Select \/ WriteError
  \/ Written \/ Recv \/ Close
HttpNext == HttpCall \/ WriteSome \/ WriteAgain \/ PeerReads \/ PeerAnswers \/ PeerCloses

\* The kernel does not answer EAGAIN for ever; the peer reads and closes in the end.
HttpFair ==
  /\ WF_httpVars(HttpCall) /\ SF_httpVars(WriteSome) /\ SF_httpVars(WriteError)
  /\ WF_httpVars(PeerReads) /\ WF_httpVars(PeerCloses)

-----------------------------------------------------------------------------
(* Properties                                                              *)

HttpTypeOK ==
  /\ step \in 0..6 /\ sock \in {"none", "open", "closed"}
  /\ left \in 0..Length /\ unread \in 0..Room
  /\ result \in {"none", "zero", "one", "index"}

\* Whatever portions the kernel takes and however often a write is interrupted, the
\* peer gets the bytes of the request in their order, none twice and none left out,
\* and all of them before the caller waits for the answer (public.c:205-241).
RequestInOrder ==
  /\ written = [k \in 1..Len(written) |-> k]
  /\ doing("recv") \/ doing("close") \/ result \in {"one", "index"} => Len(written) = Length

\* A call that returned has no socket left open, whichever step failed: with one
\* call for each report the process would run out of descriptors (robot.c:72-88).
NoSocketLeft == step = 0 /\ client # "command" => sock # "open"

\* The call returns, provided the peer takes the bytes and closes: no timeout bounds
\* the wait for either, and a thread of the pool waits meanwhile (public.c:218,
\* robot.c:82-86).
CallReturns == <>(step = 0)
=============================================================================
