--------------------------- MODULE RfidLinkProofs ---------------------------
(***************************************************************************)
(* Theorems about a gateway and any number of cards.                        *)
(***************************************************************************)
EXTENDS RfidLink, TLAPS

Wanted(f) == IF f.ok /\ f.id \in Id THEN f.id ELSE None

\* A request waits only while nothing is searched, and the host still waits for
\* the card it names; the card that is searched, or whose packet is being read,
\* is the one the host waits for.
RequestInv ==
  /\ gpc \in {"check", "timers", "taken"} => U0Ready
  /\ U0Ready => gpc \in {"top", "serial", "check", "timers", "taken"}
  /\ U0Ready /\ gpc # "taken" => ~sFlag /\ want = Wanted(tBuf)
  /\ U0Ready /\ gpc = "top" => ~timeout
  /\ gpc \in {"check", "timers"} => nid = tBuf.id
  /\ gpc = "timers" => tBuf.ok /\ t1 /\ ~t0 /\ ~T0Flag
  /\ gpc = "report" => ~sFlag
  /\ sFlag \/ gpc \in {"listen", "packet", "compare", "stop", "report"} => want = nid
  /\ gpc \in {"stop", "report"} => rx = nid

Inv == GatewayTypeOK /\ TimersFollowScan /\ RequestInv

LEMMA InvInit == Init => Inv
<1> SUFFICES ASSUME GatewayInit PROVE Inv
  BY DEF Init
<1>1. GatewayTypeOK
  BY DEF GatewayInit, GatewayTypeOK, Frame, Number
<1>2. TimersFollowScan /\ RequestInv
  BY DEF GatewayInit, TimersFollowScan, RequestInv
<1> QED
  BY <1>1, <1>2 DEF Inv

\* What the radio steps of a card or of another gateway do to the gateway.
Heard == \E p \in Id \cup {None} : PacketStarts(p) \/ PacketAgain(p)

LEMMA LinkSteps ==
  ASSUME [Next]_vars
  PROVE  MainStep \/ HandlerStep \/ Ask \/ Heard \/ UNCHANGED gatewayVars
<1>1. ASSUME NEW c \in Id, CardStep(c) PROVE Heard \/ UNCHANGED gatewayVars
  BY <1>1 DEF CardStep, CardAnswers, Heard
<1>2. ASSUME OtherGateway PROVE Heard \/ UNCHANGED gatewayVars
  BY <1>2 DEF OtherGateway, Heard
<1> QED
  BY <1>1, <1>2 DEF Next, vars, AskCards

LEMMA InvNext == Inv /\ [Next]_vars => Inv'
<1> SUFFICES ASSUME Inv, [Next]_vars PROVE Inv'
  OBVIOUS
<1> USE NumberAssumption DEF Inv, GatewayTypeOK, TimersFollowScan, RequestInv, scan
<1>1. CASE MainStep
  <2>1. CASE SearchOn \/ NothingOn \/ Listen \/ TurnOver
    BY <2>1 DEF SearchOn, NothingOn, Listen, TurnOver, Goto
  <2>2. CASE TellTimeout
    BY <2>2 DEF TellTimeout, Goto
  <2>3. CASE ReadPacket \/ GiveUp \/ Compare
    BY <2>3 DEF ReadPacket, GiveUp, Compare, Goto
  <2>4. CASE CardFound
    BY <2>4 DEF CardFound, StopScan, Goto
  <2>5. CASE Report
    BY <2>5 DEF Report, Goto
  <2>6. CASE NoRequest
    BY <2>6 DEF NoRequest, Goto
  <2>10. CASE RequestTaken
    BY <2>10 DEF RequestTaken, Goto
  <2>7. CASE TakeNumber
    BY <2>7 DEF TakeNumber, Goto, Frame, Number
  <2>8. CASE CheckRequest
    BY <2>8 DEF CheckRequest, Wanted, Frame, Number
  <2>9. CASE StartSearch
    BY <2>9 DEF StartSearch, Goto, Wanted
  <2> QED
    BY <1>1, <2>1, <2>2, <2>3, <2>4, <2>5, <2>6, <2>7, <2>8, <2>9, <2>10 DEF MainStep
<1>2. CASE HandlerStep
  <2>1. CASE ChangeTurn
    BY <2>1 DEF ChangeTurn
  <2>2. CASE EndSearch
    BY <2>2 DEF EndSearch, StopScan
  <2>3. ASSUME NEW f \in Frame, Request(f) PROVE Inv'
    BY <2>3 DEF Request, Rest, Wanted, Frame, Number
  <2> QED
    BY <1>2, <2>1, <2>2, <2>3 DEF HandlerStep
<1>3. CASE Ask
  BY <1>3 DEF Ask, Goto
<1>4. CASE Heard
  BY <1>4 DEF Heard, PacketStarts, PacketAgain, Goto
<1>5. CASE UNCHANGED gatewayVars
  BY <1>5 DEF gatewayVars, Wanted
<1> QED
  BY <1>1, <1>2, <1>3, <1>4, <1>5, LinkSteps

LEMMA InvAlways == SafeSpec => []Inv
BY InvInit, InvNext, PTL DEF SafeSpec

\* Both timers run exactly while a search is on, whoever ends it (main.c:114-130,
\* 178, 203-205), for any number of cards.
THEOREM ScanHasItsTimers == SafeSpec => []TimersFollowScan
BY InvAlways, PTL DEF Inv

\* A reported card is the one the host waits for (main.c:175-179).
THEOREM WantedIsReported == SafeSpec => []ReportIsWanted
<1>1. Inv => ReportIsWanted
  BY DEF Inv, RequestInv, ReportIsWanted
<1> QED
  BY <1>1, InvAlways, PTL
=============================================================================
