--------------------------- MODULE SerialGateway ---------------------------
(***************************************************************************)
(* The radio gateways under a host that does not wait: RFID/gateway-pc V1.2    *)
(* and V1.1 and RFID/gateway-imx6.  Gateway is the last of them with a host     *)
(* that sends one request at a time; here frames come whenever they like, so    *)
(* the interrupt that ends a frame stores the request while the main loop       *)
(* sends or reads it, and a search may be asked for during a search.            *)
(*                                                                         *)
(* The two bytes of a card's number are read and written one after the other.  *)
(***************************************************************************)
EXTENDS Integers

CONSTANTS
  Boards,      \* of "imx6", "pc12", "pc11"
  Requests,    \* frames of the host: [ok, hi, lo], or of a wrong length
  Everybody,   \* the number 65535, which imx6 does not search
  MaxFrames    \* bound on the frames of a behaviour

VARIABLES
  board, mpc,
  sFlag, T0Flag, t0, t1, timeout,   \* as in Gateway
  U0Ready, tBuf,
  fifo,       \* what the radio sends
  nid,        \* the number that is searched
  rx,         \* the packet that is received: a number, or None when it broke off
  asked,      \* numbers that the host has sent, and the power-up one
  told,       \* the host has been told the end of this search
  twice,      \* it has been told two ends of one search
  \* what went wrong in time:
  torn,       \* a frame came while the main loop was at the old one
  raced,      \* timer 1 ended the search inside T1_ON
  late,       \* timer 1 ended a search while a packet was read, or it was not told yet
              \* when the next one began
  frames

gates == <<sFlag, T0Flag, t0, t1>>
ghosts == <<asked, told, twice, torn, raced, late, frames>>
serialVars == <<board, mpc, gates, timeout, U0Ready, tBuf, fifo, nid, rx, ghosts>>

None == <<0, 0>>
Number(f) == <<f.hi, f.lo>>

\* pc11 asks for itself, from the start and with the bytes AB CD.
SerialInit ==
  /\ board \in Boards /\ mpc = "top"
  /\ sFlag = FALSE /\ T0Flag = FALSE /\ t0 = (board = "pc11") /\ t1 = FALSE
  /\ timeout = FALSE /\ U0Ready = FALSE
  /\ tBuf = [ok |-> TRUE, hi |-> Everybody[1], lo |-> Everybody[2]]
  /\ fifo = Everybody /\ nid = None /\ rx = None
  /\ asked = {Number(tBuf)} /\ told = TRUE /\ twice = FALSE
  /\ torn = FALSE /\ raced = FALSE /\ late = FALSE /\ frames = 0

-----------------------------------------------------------------------------
(* The handlers                                                            *)

\* The main loop is between two looks at tBuf.
AtRequest == mpc \in {"send2", "nidLo", "check", "t1on", "tcnt", "t0on", "taken"}

Arrives(f) ==
  /\ board # "pc11" /\ frames < MaxFrames
  /\ frames' = frames + 1
  /\ torn' = (torn \/ AtRequest)
  /\ asked' = asked \cup {Number(f)}
  /\ UNCHANGED <<board, mpc, gates, timeout, fifo, nid, rx, told, twice, raced, late>>

\* The bytes of a frame, and timer 2 after the last: seven are a request.
FrameEnds(f) ==
  /\ Arrives(f)
  /\ IF f.whole
     THEN tBuf' = [ok |-> f.ok, hi |-> f.hi, lo |-> f.lo] /\ U0Ready' = TRUE
     ELSE UNCHANGED <<tBuf, U0Ready>>

StopScan == sFlag' = FALSE /\ T0Flag' = FALSE /\ t0' = FALSE /\ t1' = FALSE

\* Timer 0
ChangeTurn ==
  /\ t0 /\ T0Flag' = ~T0Flag
  /\ UNCHANGED <<board, mpc, sFlag, t0, t1, timeout, U0Ready, tBuf, fifo, nid, rx, ghosts>>

\* Mutant: the search stays on.
EndSearchOnlyTimers ==
  /\ t1 /\ (mpc \in {"tcnt", "t0on"} => mpc = "tcnt" /\ sFlag)
  /\ T0Flag' = FALSE /\ t0' = FALSE /\ t1' = FALSE
  /\ timeout' = (board = "imx6")
  /\ raced' = (raced \/ mpc = "tcnt")
  /\ late' = (late \/ mpc \in {"packet", "got", "stop"})
  /\ UNCHANGED <<board, mpc, sFlag, U0Ready, tBuf, fifo, nid, rx, asked, told, twice, torn,
                 frames>>

\* Timer 1, whose count of a search that was on may end before TCNT1 is cleared.
EndSearch ==
  /\ t1 /\ (mpc \in {"tcnt", "t0on"} => mpc = "tcnt" /\ sFlag)
  /\ sFlag' = FALSE /\ T0Flag' = FALSE /\ t0' = FALSE /\ t1' = FALSE
  /\ timeout' = (board = "imx6")
  /\ raced' = (raced \/ mpc = "tcnt")
  /\ late' = (late \/ mpc \in {"packet", "got", "stop"})
  /\ UNCHANGED <<board, mpc, U0Ready, tBuf, fifo, nid, rx, asked, told, twice, torn, frames>>

-----------------------------------------------------------------------------
(* The main loop                                                           *)

Goto(from, to) == mpc = from /\ mpc' = to
Quietly == UNCHANGED <<board, timeout, U0Ready, ghosts>>

\* The host is told the end of a search.
Tell == told' = TRUE /\ twice' = (twice \/ told) /\ UNCHANGED <<asked, torn, raced, late, frames>>

Searching == sFlag \/ board = "pc11"

Top ==
  /\ \/ Searching /\ Goto("top", "turn")
     \/ ~Searching /\ ~timeout /\ Goto("top", "serial")
  /\ Quietly /\ UNCHANGED <<gates, tBuf, fifo, nid, rx>>

\* P3 is sent; a search that began since has not been told.
TellTimeout ==
  /\ ~sFlag /\ timeout /\ Goto("top", "serial")
  /\ timeout' = FALSE /\ Tell
  /\ UNCHANGED <<board, gates, U0Ready, tBuf, fifo, nid, rx>>

\* GIO1 does not rise: the turn is over.
Turn ==
  /\ \/ T0Flag /\ Goto("turn", "listen")
     \/ ~T0Flag /\ Goto("turn", "send1")
     \/ ~T0Flag /\ Goto("listen", "turn")
  /\ Quietly /\ UNCHANGED <<gates, tBuf, fifo, nid, rx>>

PacketStarts(p) ==
  /\ T0Flag /\ Goto("listen", "packet")
  /\ rx' = p
  /\ Quietly /\ UNCHANGED <<gates, tBuf, fifo, nid>>

\* The end of a packet is waited for while the search is on, by pc11 for ever.
RecvData ==
  /\ \/ rx # None /\ Goto("packet", "got")
     \/ rx = None /\ ~sFlag /\ board # "pc11" /\ Goto("packet", "turn")
  /\ Quietly /\ UNCHANGED <<gates, tBuf, fifo, nid, rx>>

PacketAgain(p) ==
  /\ mpc = "packet" /\ rx = None
  /\ rx' = p
  /\ Quietly /\ UNCHANGED <<mpc, gates, tBuf, fifo, nid>>

\* imx6 looks for one card; the others send on whatever card it is.
Compare ==
  /\ mpc = "got"
  /\ mpc' = IF board # "imx6" THEN "turn" ELSE IF rx = nid THEN "stop" ELSE "turn"
  /\ Quietly /\ UNCHANGED <<gates, tBuf, fifo, nid, rx>>

CardFound ==
  /\ Goto("stop", "report")
  /\ StopScan
  /\ Quietly /\ UNCHANGED <<tBuf, fifo, nid, rx>>

Report ==
  /\ Goto("report", "turn")
  /\ Tell
  /\ UNCHANGED <<board, gates, timeout, U0Ready, tBuf, fifo, nid, rx>>

\* A7139Send fills the radio's buffer byte by byte.
SendHigh ==
  /\ Goto("send1", "send2")
  /\ fifo' = <<tBuf.hi, fifo[2]>>
  /\ Quietly /\ UNCHANGED <<gates, tBuf, nid, rx>>

\* pc11 tells the host what it sent.
SendLow ==
  /\ mpc = "send2" /\ mpc' = IF board = "pc11" THEN "top" ELSE "serial"
  /\ fifo' = <<fifo[1], tBuf.lo>>
  /\ Quietly /\ UNCHANGED <<gates, tBuf, nid, rx>>

Serial ==
  /\ mpc = "serial"
  /\ mpc' = IF ~U0Ready THEN "top" ELSE IF board = "imx6" THEN "nidHi" ELSE "check"
  /\ Quietly /\ UNCHANGED <<gates, tBuf, fifo, nid, rx>>

TakeNumber ==
  /\ \/ Goto("nidHi", "nidLo") /\ nid' = <<tBuf.hi, nid[2]>>
     \/ Goto("nidLo", "check") /\ nid' = <<nid[1], tBuf.lo>>
  /\ Quietly /\ UNCHANGED <<gates, tBuf, fifo, rx>>

Check ==
  /\ mpc = "check"
  /\ mpc' = IF tBuf.ok /\ (board = "imx6" => nid # Everybody) THEN "t1on" ELSE "taken"
  /\ Quietly /\ UNCHANGED <<gates, tBuf, fifo, nid, rx>>

\* T1_ON, in two steps: the timer runs, and TCNT1 is cleared.
T1_ON ==
  /\ \/ Goto("t1on", "tcnt") /\ t1' = TRUE
     \/ Goto("tcnt", "t0on") /\ UNCHANGED t1
  /\ Quietly /\ UNCHANGED <<sFlag, T0Flag, t0, tBuf, fifo, nid, rx>>

\* T0_ON; told: a search that the host is to be told the end of.
StartSearch ==
  /\ Goto("t0on", "taken")
  /\ t0' = TRUE /\ sFlag' = TRUE
  /\ told' = FALSE
  /\ late' = (late \/ timeout)
  /\ UNCHANGED <<board, T0Flag, t1, timeout, U0Ready, tBuf, fifo, nid, rx, asked, twice,
                 torn, raced, frames>>

Taken ==
  /\ Goto("taken", "top")
  /\ U0Ready' = FALSE
  /\ UNCHANGED <<board, gates, timeout, tBuf, fifo, nid, rx, ghosts>>

SerialMain ==
  \/ Top \/ TellTimeout \/ Turn \/ RecvData \/ Compare \/ CardFound \/ Report \/ SendHigh
  \/ SendLow \/ Serial \/ TakeNumber \/ Check \/ T1_ON \/ StartSearch \/ Taken

Packets == {Number(f) : f \in Requests} \cup {None}
SerialNext ==
  \/ SerialMain \/ ChangeTurn \/ EndSearch
  \/ \E f \in Requests : FrameEnds(f)
  \/ \E p \in Packets : PacketStarts(p) \/ PacketAgain(p)

SerialSpec == SerialInit /\ [][SerialNext]_serialVars
SerialFair ==
  WF_serialVars(SerialMain) /\ WF_serialVars(ChangeTurn) /\ WF_serialVars(EndSearch)

-----------------------------------------------------------------------------
(* Properties                                                              *)

SerialTypeOK ==
  /\ mpc \in {"top", "turn", "listen", "packet", "got", "stop", "report", "send1", "send2",
              "serial", "nidHi", "nidLo", "check", "t1on", "tcnt", "t0on", "taken"}
  /\ board = "pc11" => ~sFlag /\ ~t1 /\ ~U0Ready

\* The radio asks for a number that the host sent, and imx6 for the one it compares
\* answers with unless a newer request waits: a number is never made of two requests
\* but when the second came while the main loop was sending or taking the first
\* (gateway-pc/V1.2 main.c:74-85, gateway-imx6 main.c:72-81, 188, 196-208).
AsksWhatIsSought ==
  mpc = "serial" /\ sFlag /\ ~torn =>
    fifo \in asked /\ (board = "imx6" /\ ~U0Ready => fifo = nid)

\* A search has its time limit, also one that began during another, but when timer 1
\* ends the old one between two stores of T1_ON (gateway-imx6 main.c:125-129, 203-205).
SearchHasLimit == sFlag /\ mpc \notin {"t1on", "tcnt", "t0on"} => t1 \/ raced

\* The host is told one end of a search, its card or the time limit, but when the limit
\* comes while the card's packet is read, or has not been told when a new search begins:
\* nothing clears timeout then (gateway-imx6 main.c:126-130, 171-180, 190-194).
ToldOnce == twice => late \/ torn \/ raced

\* What makes a search safe (gateway-imx6 main.c:72-81, 123-130, 171-208).
SafeSearch == AsksWhatIsSought /\ SearchHasLimit /\ ToldOnce

\* A request is looked at, also while RecvData waits for the end of a packet that broke
\* off: timer 1 ends that (gateway-pc/V1.2 main.c:45-55, 126-130, 187-199).
RequestIsTaken == U0Ready ~> (~U0Ready \/ raced)
=============================================================================
