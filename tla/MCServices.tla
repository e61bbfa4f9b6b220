------------------------------ MODULE MCServices ------------------------------
(***************************************************************************)
(* The services beside the core of the server: how it cuts what it reads into     *)
(* packets, its HTTP clients, its log, its table of robots under two threads, the  *)
(* command CGI, the GIS server, the track of a box, and the conversions of text.   *)
(* They share nothing, so one of them moves in a behaviour; the others keep their  *)
(* first state.  HashRace is extended for its assumptions; the rest are instances. *)
(***************************************************************************)
EXTENDS HashRace, Sequences, TLC

VARIABLES
  part,
  call,                                                          \* Text
  kmpc, text, pattern, table, nextval, search, place,              \* Kmp
  fpc, stream, onWay, socket, hungUp, rBuf, base, i, tflag, handled,      \* Framing
  client, step, sock, select, left, written, unread, answer, gone, row, result,
  lpc, fd, endsLine, line, sem, logFd, files, LogFileUsed, size, broken, stray,
  mpc, overlap, raced, calls, opens,                              \* LogFile
  link, rInfo, R_CON_NUM, queue, job, mg, tm, rows, connects, sends,
  cpc, fields, content, output, backlog, spc, served, buf, online, back, handed,
  answers, moves,                                                 \* HttpControl
  fix, track                                                      \* Track

-----------------------------------------------------------------------------
(* Text: strings over small alphabets                                       *)

Strings(S, n) == UNION {[1..k -> S] : k \in 1..n}
Text0(f, X) == [f : {f}, x : X]
NoCall == [f |-> "none", x |-> 0]
TextCalls ==
  Text0("bytes", Strings({1, 64, 127}, 4))
  \cup Text0("words", Strings({0, 9, 128, 250}, 3))
  \cup Text0("unicode", Strings({1, 127, 128, 2047, 2048, 65535, 8364}, 2))
  \cup Text0("cut", {<<1, 2, 3, 4, 5>>} \X (0..5) \X (0..5))
  \cup Text0("figures", [1..4 -> {48, 50, 57}])
  \cup Text0("number", {0, 5, 120, 1000, 12345, 9876543, 700000, 1234000, 2005010})
Texts == INSTANCE Text WITH Calls <- TextCalls, None <- NoCall

Search == INSTANCE Kmp WITH
  Searched <- {<<>>} \cup Strings({1, 2}, 5), Sought <- {<<>>} \cup Strings({1, 2}, 4)

(* Framing: a heartbeat, registrations, one of them with the head byte in its      *)
(* number, a report, a packet of a wrong length, and one of length 1 in a number    *)
heart == <<254, 6, 0, 1, 2, 255>>
reg   == <<254, 12, 1, 1, 2, 3, 4, 5, 6, 7, 8, 255>>
regFe == <<254, 12, 1, 254, 6, 0, 4, 5, 255, 7, 8, 255>>
rep   == <<254, 12, 2, 1, 2, 3, 4, 5, 6, 7, 8, 255>>
odd   == <<254, 7, 9, 1, 2, 3, 255>>
loop  == <<254, 12, 1, 254, 1, 0, 4, 5, 6, 7, 8, 255>>
Packets == INSTANCE Framing WITH
  Streams <- {<<reg>>, <<regFe, heart>>, <<odd, rep>>, <<heart, loop>>},
  ReadSize <- 20, Closes <- TRUE

Http == INSTANCE HttpClient WITH
  Clients <- {"post", "test", "sms", "gis", "command"}, Length <- 3, Room <- 2

Log == INSTANCE LogFile WITH
  Callers <- {1, 2}, LogMax <- 1, MaxCalls <- 3, MaxOpens <- 1, LogFile <- LogFileUsed

(* Three threads register two robots that have the same home slot           *)
MCRegisters == 1 :> "a" @@ 2 :> "b" @@ 3 :> "a"
MCHashStart == [a |-> 2, b |-> 2]

Gis == INSTANCE GisServer WITH
  Fds <- {1}, Boxes <- {"a", "b"}, Pool <- {1, 2}, MaxConnects <- 2, MaxSends <- 2

(* A proper request, and requests with one field wrong: too short, too long for     *)
(* the buffer of the CGI, missing, no string                                 *)
Control == INSTANCE HttpControl WITH
  Callers <- {1, 2}, Targets <- <<"a", "b">>,
  Fields <- {<<1, 8, 16>>, <<2, 7, 16>>, <<1, 8, 15>>, <<1, 8, 119>>, <<1, -1, 16>>, <<-2, 8, 16>>},
  Contents <- {"exact", "less"}, MaxMoves <- 2

Tracks == INSTANCE Track WITH
  Degrees <- {0, 7, 113}, Minutes <- {0, 5, 59}, Parts <- {0, 123456, 7},
  Knots <- {0, 5, 99, 100, 456, 1234, 9999}, Courses <- {3, 90, 359, 1800, 3599}

-----------------------------------------------------------------------------
framingVars == <<fpc, stream, onWay, socket, hungUp, rBuf, base, i, tflag, handled>>
httpVars == <<client, step, sock, select, left, written, unread, answer, gone, row, result>>
logVars == <<lpc, fd, endsLine, line, sem, logFd, files, LogFileUsed, size, broken, stray,
             mpc, overlap, raced, calls, opens>>
gisVars == <<link, rInfo, R_CON_NUM, queue, job, mg, tm, rows, connects, sends>>
controlVars == <<cpc, fields, content, output, backlog, spc, served, buf, online, back,
                 handed, answers, moves>>
trackVars == <<fix, track>>
kmpVars == <<kmpc, text, pattern, table, nextval, search, place>>
vars == <<part, call, kmpVars, framingVars, httpVars, logVars, raceVars, gisVars, controlVars, trackVars>>

Init ==
  /\ part \in {"text", "kmp", "framing", "http", "log", "table", "gis", "control", "track"}
  /\ Texts!TextInit /\ Search!KmpInit /\ Tracks!TrackInit
  /\ Packets!FramingInit /\ (part = "framing" \/ stream = <<reg>>)
  /\ Http!HttpInit /\ (part = "http" \/ client = "post")
  /\ Log!LogInit /\ RaceInit /\ Gis!GisInit
  /\ Control!ControlInit
  /\ part = "control" \/ (fields = <<<<1, 8, 16>>, <<1, 8, 16>>>> /\ content = <<"exact", "exact">>)

\* The parts that do not move.
Others ==
  /\ UNCHANGED part
  /\ IF part = "text" THEN TRUE ELSE UNCHANGED call
  /\ IF part = "kmp" THEN TRUE ELSE UNCHANGED kmpVars
  /\ IF part = "framing" THEN TRUE ELSE UNCHANGED framingVars
  /\ IF part = "http" THEN TRUE ELSE UNCHANGED httpVars
  /\ IF part = "log" THEN TRUE ELSE UNCHANGED logVars
  /\ IF part = "table" THEN TRUE ELSE UNCHANGED raceVars
  /\ IF part = "gis" THEN TRUE ELSE UNCHANGED gisVars
  /\ IF part = "control" THEN TRUE ELSE UNCHANGED controlVars
  /\ IF part = "track" THEN TRUE ELSE UNCHANGED trackVars

\* The two boxes of the GIS server are alike, and so are two threads that wait: the first
\* to connect is a, and the first thread takes a job when both could.
Alike ==
  /\ connects = 0 => link'[1].box # "b"
  /\ job[1].pc = "idle" /\ job[2].pc = "idle" => job'[2].pc = "idle"

Next ==
  /\ Others
  /\ \/ part = "text" /\ Texts!TextNext
     \/ part = "kmp" /\ Search!KmpNext
     \/ part = "framing" /\ Packets!FramingNext
     \/ part = "http" /\ Http!HttpNext
     \/ part = "log" /\ Log!LogNext
     \/ part = "table" /\ RaceNext
     \/ part = "gis" /\ Gis!GisNext /\ Alike
     \/ part = "control" /\ Control!ControlNext
     \/ part = "track" /\ Tracks!TrackNext

(* Fairness: each part's own (FramingFair, HttpFair, LogFair, GisFair and          *)
(* ControlFair).  As one part moves, the first condition of each is put into one,   *)
(* and so on.                                                               *)
partVars ==
  CASE part = "framing" -> framingVars
    [] part = "http"    -> httpVars
    [] part = "log"     -> logVars
    [] part = "gis"     -> gisVars
    [] OTHER            -> controlVars
Weak1 == UNCHANGED part /\ \/ part = "framing" /\ Packets!RobotProcess
                           \/ part = "http" /\ Http!HttpCall
                           \/ part = "gis" /\ Gis!Process(1)
                           \/ part = "control" /\ Control!Cgi(1)
Weak2 == UNCHANGED part /\ \/ part = "http" /\ Http!PeerReads
                           \/ part = "gis" /\ Gis!Process(2)
                           \/ part = "control" /\ Control!Cgi(2)
Weak3 == UNCHANGED part /\ \/ part = "http" /\ Http!PeerCloses
                           \/ part = "gis" /\ Gis!ManagerAndClock
                           \/ part = "control" /\ Control!HttpServer
Strong1 == UNCHANGED part /\ \/ part = "http" /\ Http!WriteSome
                             \/ part = "log" /\ Log!lprintf(1)
Strong2 == UNCHANGED part /\ \/ part = "http" /\ Http!WriteError
                             \/ part = "log" /\ Log!lprintf(2)
Strong3 == UNCHANGED part /\ part = "log" /\ Log!LogManage

Spec ==
  /\ Init /\ [][Next]_vars
  /\ WF_partVars(Weak1) /\ WF_partVars(Weak2) /\ WF_partVars(Weak3)
  /\ SF_partVars(Strong1) /\ SF_partVars(Strong2) /\ SF_partVars(Strong3)

-----------------------------------------------------------------------------
(* What each service promises: its properties, each stated and explained in its    *)
(* module, taken together with the types of its state.                          *)

\* Every packet that comes whole in a read is handled, nothing else is, and the scan of
\* a read ends (logic.c:17-77).
PacketsHandled ==
  /\ [](Packets!FramingTypeOK /\ Packets!WholeAreHandled /\ Packets!OnlyPackets)
  /\ Packets!ScanEnds

\* The peer of an HTTP call gets the request's bytes in order, each once; the call
\* closes its socket, and returns once the peer has read and closed
\* (public.c:197-238, post.c, sms.c).
RequestsDelivered ==
  /\ [](Http!HttpTypeOK /\ Http!RequestInOrder /\ Http!NoSocketLeft)
  /\ part = "http" => Http!CallReturns

\* A line goes to the log whatever file that is by then, whole when no other call
\* overlaps; and a call to lprintf comes back unless LogManage waits for itself
\* (log.c:37-156).
LogIsWhole ==
  /\ [](Log!LogTypeOK /\ Log!LinesReachTheLog /\ Log!AloneIsWhole)
  /\ Log!CallsReturn


\* A robot is sent what a process asked for it, once unless a process ended before it
\* sent, success is printed for a command that was given to _write, and every process
\* that sent its message comes to its end (cgi.c:67-95, socket.c:156-195).
CommandsServed ==
  /\ [](Control!ControlTypeOK /\ Control!CommandsAreAsked /\ Control!SuccessIsHanded /\ Control!RepeatsAreOfKilled)
  /\ Control!IsAnswered

=============================================================================
