------------------------------- MODULE Gateway -------------------------------
(***************************************************************************)
(* RFID/gateway-imx6/main.c: a radio gateway that searches one card for its  *)
(* host.  A main loop asks for the card and listens by turns; it shares flags *)
(* and the request with the handlers of three timers, which may run between   *)
(* any two of its steps: timer 0 alternates asking and listening, timer 1     *)
(* ends a search that takes an hour, timer 2 ends a frame of the host.        *)
(*                                                                         *)
(* A handler is one step, a step of the main loop is what lies between two    *)
(* accesses to what it shares with them.  A frame's bytes are its card number *)
(* and whether its head, length and end are right; the two bytes of a number  *)
(* are read and written together.                                          *)
(***************************************************************************)
CONSTANTS
  Id,         \* card numbers
  Broadcast,  \* 65535
  None        \* no card

ASSUME NumberAssumption == Broadcast \notin Id /\ None \notin Id /\ None # Broadcast

VARIABLES
  gpc,      \* the main loop
  sFlag,    \* a search is on
  T0Flag,   \* the time to listen
  t0, t1,   \* timers 0 and 1 run
  timeout,  \* timer 1 has ended a search
  U0Ready,  \* a request has come
  tBuf,     \* the request, and what the radio sends
  nid,      \* the card whose answer ends the search
  rx,       \* the packet whose start was heard: its card, None if it broke off
  want      \* the host: the card it waits for

scan == <<sFlag, T0Flag, t0, t1>>
gatewayVars == <<gpc, scan, timeout, U0Ready, tBuf, nid, rx, want>>

Number == Id \cup {Broadcast}
Frame == [ok : BOOLEAN, id : Number]

GatewayInit ==
  /\ gpc = "top"
  /\ sFlag = FALSE /\ T0Flag = FALSE /\ t0 = FALSE /\ t1 = FALSE
  /\ timeout = FALSE /\ U0Ready = FALSE
  /\ tBuf = [ok |-> TRUE, id |-> Broadcast]
  /\ nid = None /\ rx = None /\ want = None

-----------------------------------------------------------------------------
(* The host: it waits for an answer, and until the gateway is at rest.       *)

Rest == gpc = "top" /\ ~sFlag /\ ~timeout /\ ~U0Ready

\* Timer 2 overflows after a frame of seven bytes, whatever they are.
Request(f) ==
  /\ Rest /\ want = None
  /\ tBuf' = f
  /\ U0Ready' = TRUE
  /\ want' = IF f.ok /\ f.id \in Id THEN f.id ELSE None
  /\ UNCHANGED <<gpc, scan, timeout, nid, rx>>

-----------------------------------------------------------------------------
(* The other handlers                                                      *)

\* Mutant: timer 0 goes on.
StopScanLeavesT0 == sFlag' = FALSE /\ T0Flag' = FALSE /\ t1' = FALSE /\ UNCHANGED t0

StopScan == sFlag' = FALSE /\ T0Flag' = FALSE /\ t0' = FALSE /\ t1' = FALSE

\* Timer 0: the turn changes.
ChangeTurn ==
  /\ t0
  /\ T0Flag' = ~T0Flag
  /\ UNCHANGED <<gpc, sFlag, t0, t1, timeout, U0Ready, tBuf, nid, rx, want>>

\* Mutant: the main loop is not told.
EndSearchSilently ==
  /\ t1 /\ gpc # "timers"
  /\ StopScan
  /\ UNCHANGED <<gpc, timeout, U0Ready, tBuf, nid, rx, want>>

\* Timer 1: the hour is over.  It is not over the moment timer 1 was set.
EndSearch ==
  /\ t1 /\ gpc # "timers"
  /\ StopScan
  /\ timeout' = TRUE
  /\ UNCHANGED <<gpc, U0Ready, tBuf, nid, rx, want>>

-----------------------------------------------------------------------------
(* The main loop                                                           *)

Goto(from, to) == gpc = from /\ gpc' = to

SearchOn ==
  /\ sFlag
  /\ Goto("top", "turn")
  /\ UNCHANGED <<scan, timeout, U0Ready, tBuf, nid, rx, want>>

\* P3 is sent.
TellTimeout ==
  /\ ~sFlag /\ timeout
  /\ Goto("top", "serial")
  /\ timeout' = FALSE
  /\ want' = None
  /\ UNCHANGED <<scan, U0Ready, tBuf, nid, rx>>

NothingOn ==
  /\ ~sFlag /\ ~timeout
  /\ Goto("top", "serial")
  /\ UNCHANGED <<scan, timeout, U0Ready, tBuf, nid, rx, want>>

Listen ==
  /\ T0Flag
  /\ Goto("turn", "listen")
  /\ UNCHANGED <<scan, timeout, U0Ready, tBuf, nid, rx, want>>

TurnOver ==
  /\ ~T0Flag
  /\ gpc \in {"turn", "listen"}
  /\ gpc' = IF gpc = "turn" THEN "ask" ELSE "turn"
  /\ UNCHANGED <<scan, timeout, U0Ready, tBuf, nid, rx, want>>

\* GIO1 rises: a packet, of which p is received.
PacketStarts(p) ==
  /\ T0Flag
  /\ Goto("listen", "packet")
  /\ rx' = p
  /\ UNCHANGED <<scan, timeout, U0Ready, tBuf, nid, want>>

\* RecvData still waits for the end of a packet that broke off.
PacketAgain(p) ==
  /\ gpc = "packet" /\ rx = None
  /\ rx' = p
  /\ UNCHANGED <<gpc, scan, timeout, U0Ready, tBuf, nid, want>>

ReadPacket ==
  /\ rx # None
  /\ Goto("packet", "compare")
  /\ UNCHANGED <<scan, timeout, U0Ready, tBuf, nid, rx, want>>

\* RecvData looks at sFlag, not at T0Flag.
GiveUp ==
  /\ rx = None /\ ~sFlag
  /\ Goto("packet", "turn")
  /\ UNCHANGED <<scan, timeout, U0Ready, tBuf, nid, rx, want>>

\* Mutant: every card is reported, as gateway-pc does.
CompareNothing ==
  /\ Goto("compare", "stop")
  /\ UNCHANGED <<scan, timeout, U0Ready, tBuf, nid, rx, want>>

Compare ==
  /\ gpc = "compare"
  /\ gpc' = IF rx = nid THEN "stop" ELSE "turn"
  /\ UNCHANGED <<scan, timeout, U0Ready, tBuf, nid, rx, want>>

CardFound ==
  /\ Goto("stop", "report")
  /\ StopScan
  /\ UNCHANGED <<timeout, U0Ready, tBuf, nid, rx, want>>

Report ==
  /\ Goto("report", "turn")
  /\ want' = None
  /\ UNCHANGED <<scan, timeout, U0Ready, tBuf, nid, rx>>

\* The radio sends tBuf, also when the search has just ended.
Ask ==
  /\ Goto("ask", "serial")
  /\ UNCHANGED <<scan, timeout, U0Ready, tBuf, nid, rx, want>>

NoRequest ==
  /\ ~U0Ready
  /\ Goto("serial", "top")
  /\ UNCHANGED <<scan, timeout, U0Ready, tBuf, nid, rx, want>>

TakeNumber ==
  /\ U0Ready
  /\ Goto("serial", "check")
  /\ nid' = tBuf.id
  /\ UNCHANGED <<scan, timeout, U0Ready, tBuf, rx, want>>

\* T1_ON
CheckRequest ==
  /\ gpc = "check"
  /\ IF tBuf.ok /\ nid # Broadcast
       THEN gpc' = "timers" /\ t1' = TRUE
       ELSE gpc' = "taken" /\ UNCHANGED t1
  /\ UNCHANGED <<sFlag, T0Flag, t0, timeout, U0Ready, tBuf, nid, rx, want>>

\* T0_ON
StartSearch ==
  /\ Goto("timers", "taken")
  /\ t0' = TRUE
  /\ sFlag' = TRUE
  /\ UNCHANGED <<T0Flag, t1, timeout, U0Ready, tBuf, nid, rx, want>>

RequestTaken ==
  /\ Goto("taken", "top")
  /\ U0Ready' = FALSE
  /\ UNCHANGED <<scan, timeout, tBuf, nid, rx, want>>

\* The steps in which no radio takes part.
MainStep ==
  \/ SearchOn \/ TellTimeout \/ NothingOn
  \/ Listen \/ TurnOver \/ ReadPacket \/ GiveUp \/ Compare \/ CardFound \/ Report
  \/ NoRequest \/ TakeNumber \/ CheckRequest \/ StartSearch \/ RequestTaken

HandlerStep == ChangeTurn \/ EndSearch \/ \E f \in Frame : Request(f)

-----------------------------------------------------------------------------
\* Types; among them that a card's number, never Broadcast, is searched (201).
GatewayTypeOK ==
  /\ gpc \in {"top", "turn", "listen", "packet", "compare", "stop", "report", "ask",
              "serial", "check", "timers", "taken"}
  /\ sFlag \in BOOLEAN /\ T0Flag \in BOOLEAN /\ t0 \in BOOLEAN /\ t1 \in BOOLEAN
  /\ timeout \in BOOLEAN /\ U0Ready \in BOOLEAN
  /\ tBuf \in Frame
  /\ nid \in Number \cup {None}
  /\ gpc = "timers" \/ sFlag => nid \in Id
  /\ rx \in Id \cup {None}
  /\ want \in Id \cup {None}

\* A search is on exactly while both timers run, whichever of the main loop and
\* timer 1 ends it: no search lacks its time limit, and the turns do not go on
\* after it (main.c:114-121, 178, 203-205).
TimersFollowScan ==
  gpc # "timers" => (sFlag <=> t1) /\ (sFlag <=> t0) /\ (T0Flag => sFlag)

\* What the host gets is the card it waits for, though others answer to other
\* gateways and old requests (main.c:175-179, 201).
ReportIsWanted == gpc = "report" => rx = want

\* A request for a card is answered: the card or the time limit (main.c:123-130,
\* 190-194), though RecvData may be waiting for a packet that broke off (47-51).
RequestIsAnswered == (want # None) ~> (want = None)
=============================================================================
