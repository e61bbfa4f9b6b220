----------------------------- MODULE DevicesProofs -----------------------------
(***************************************************************************)
(* Safety of the devices: what a host may rely on that asks a serial       *)
(* gateway whenever it likes, what a card answers, what becomes of the     *)
(* files, what is left of a receiver's fix in the row of the GIS server,   *)
(* what the panel of the GIS box shows, and what the host of a key board   *)
(* may rely on.  CardBoard and KeyBoard have names of SerialGateway: they  *)
(* are instances.                                                          *)
(***************************************************************************)
EXTENDS SerialGateway, Files, Track, Display, SequenceTheorems, TLAPS

\* Of the cards
CONSTANTS Kinds, Air, nId, AllCards, MaxHeard
VARIABLES kind, bpc, flag, len, rBuf, enabled, cardBuf, answered, due, owed, cardRaced, swapped,
          heard

\* Of the key boards
CONSTANTS Keys, Code, Other, Asked, Moves, MaxEvents
VARIABLES kpc, encode, keyReady, U0Count, keyBuf, t2, latch, level, scans, key_stat, saw, keyBit,
          answer, wire, events, want, openDue, held

Cards == INSTANCE CardBoard WITH tBuf <- cardBuf, raced <- cardRaced
Locks == INSTANCE KeyBoard WITH U0Ready <- keyReady, rBuf <- keyBuf, told <- answer, due <- openDue

\* Something went wrong in time.  It stays so.
Bad == late \/ torn \/ raced

-----------------------------------------------------------------------------
(* The time limit                                                          *)

\* The timer runs during a search and from the first store of T1_ON on.
LimitInv == sFlag \/ mpc \in {"tcnt", "t0on"} => t1 \/ raced

\* A search, however it began, has its time limit, unless timer 1 ended the one before
\* inside T1_ON (gateway-imx6 main.c:116-130, 203-205).
THEOREM SearchIsLimited == SerialSpec => []SearchHasLimit
<1>1. SerialInit => LimitInv
  BY DEF SerialInit, LimitInv
<1>2. LimitInv /\ [SerialNext]_serialVars => LimitInv'
  <2> SUFFICES ASSUME LimitInv, [SerialNext]_serialVars PROVE LimitInv'
    OBVIOUS
  <2>1. CASE SerialMain
    BY <2>1 DEF SerialMain, LimitInv, Top, TellTimeout, Turn, RecvData, Compare, CardFound,
      Report, SendHigh, SendLow, Serial, TakeNumber, Check, T1_ON, StartSearch, Taken, Goto,
      Quietly, Tell, StopScan, gates, ghosts
  <2>2. CASE ChangeTurn
    BY <2>2 DEF ChangeTurn, LimitInv, ghosts
  <2>3. CASE EndSearch
    BY <2>3 DEF EndSearch, LimitInv
  <2>4. CASE \E f \in Requests : FrameEnds(f)
    BY <2>4 DEF FrameEnds, Arrives, LimitInv, gates
  <2>5. CASE \E p \in Packets : PacketStarts(p) \/ PacketAgain(p)
    BY <2>5 DEF PacketStarts, PacketAgain, Goto, Quietly, LimitInv, gates, ghosts
  <2>6. CASE UNCHANGED serialVars
    BY <2>6 DEF LimitInv, serialVars, gates, ghosts
  <2> QED
    BY <2>1, <2>2, <2>3, <2>4, <2>5, <2>6 DEF SerialNext
<1>3. LimitInv => SearchHasLimit
  BY DEF LimitInv, SearchHasLimit
<1> QED
  BY <1>1, <1>2, <1>3, PTL DEF SerialSpec

-----------------------------------------------------------------------------
(* The end of a search                                                     *)

\* The timers run during a search only, but for pc11, which always searches, and for
\* timer 1 inside T1_ON.
TimersInv ==
  /\ T0Flag => t0
  /\ t0 => sFlag \/ board = "pc11"
  /\ t1 => sFlag \/ mpc \in {"tcnt", "t0on"}

\* A card is compared and reported by imx6 alone, while the search is on or after the
\* main loop has ended it.
CardInv ==
  /\ mpc \in {"stop", "report"} => board = "imx6"
  /\ mpc \in {"packet", "got", "stop"} /\ board = "imx6" => sFlag \/ late
  /\ mpc = "report" => ~sFlag

\* Of a search whose end is to come, or is being told, none has been told.
EndsInv ==
  \/ Bad
  \/ /\ sFlag => ~told /\ ~timeout
     /\ timeout => ~told
     /\ mpc = "report" => ~told /\ ~timeout
     /\ ~twice

EndInv == TimersInv /\ CardInv /\ EndsInv

\* The host is told one end of a search, but when the end comes in one of the moments
\* that Bad names (gateway-imx6 main.c:126-130, 171-194).
THEOREM EndIsToldOnce == SerialSpec => []ToldOnce
<1>1. SerialInit => EndInv
  BY DEF SerialInit, EndInv, TimersInv, CardInv, EndsInv
<1>2. EndInv /\ [SerialNext]_serialVars => EndInv'
  <2> SUFFICES ASSUME EndInv, [SerialNext]_serialVars PROVE EndInv'
    OBVIOUS
  <2> USE DEF EndInv, TimersInv, CardInv, EndsInv, Bad
  <2>1. CASE SerialMain
    <3>1. CASE Top
      BY <3>1 DEF Top, Goto, Quietly, gates, ghosts
    <3>2. CASE TellTimeout
      BY <3>2 DEF TellTimeout, Tell, Goto, gates
    <3>3. CASE Turn \/ RecvData \/ Compare
      BY <3>3 DEF Turn, RecvData, Compare, Goto, Quietly, gates, ghosts
    <3>4. CASE CardFound
      BY <3>4 DEF CardFound, StopScan, Goto, Quietly, ghosts
    <3>5. CASE Report
      BY <3>5 DEF Report, Tell, Goto, gates
    <3>6. CASE SendHigh \/ SendLow \/ Serial \/ TakeNumber \/ Check
      BY <3>6 DEF SendHigh, SendLow, Serial, TakeNumber, Check, Goto, Quietly, gates, ghosts
    <3>7. CASE T1_ON
      BY <3>7 DEF T1_ON, Goto, Quietly, ghosts
    <3>8. CASE StartSearch
      BY <3>8 DEF StartSearch, Goto
    <3>9. CASE Taken
      BY <3>9 DEF Taken, Goto, gates, ghosts
    <3> QED
      BY <2>1, <3>1, <3>2, <3>3, <3>4, <3>5, <3>6, <3>7, <3>8, <3>9 DEF SerialMain
  <2>2. CASE ChangeTurn
    BY <2>2 DEF ChangeTurn, ghosts
  <2>3. CASE EndSearch
    BY <2>3 DEF EndSearch
  <2>4. ASSUME NEW f \in Requests, FrameEnds(f) PROVE EndInv'
    <3>1. torn => torn'
      BY <2>4, Zenon DEF FrameEnds, Arrives
    <3>2. UNCHANGED <<board, mpc, sFlag, T0Flag, t0, t1, timeout, told, twice, raced, late>>
      BY <2>4 DEF FrameEnds, Arrives, gates
    <3> QED
      BY <3>1, <3>2
  <2>5. CASE \E p \in Packets : PacketStarts(p) \/ PacketAgain(p)
    BY <2>5 DEF PacketStarts, PacketAgain, Goto, Quietly, gates, ghosts
  <2>6. CASE UNCHANGED serialVars
    BY <2>6 DEF serialVars, gates, ghosts
  <2> QED
    BY <2>1, <2>2, <2>3, <2>4, <2>5, <2>6 DEF SerialNext
<1>3. EndInv => ToldOnce
  BY DEF EndInv, EndsInv, Bad, ToldOnce
<1> QED
  BY <1>1, <1>2, <1>3, PTL DEF SerialSpec

-----------------------------------------------------------------------------
(* The number that is asked for                                            *)

TakingNumber == {"check", "t1on", "tcnt", "t0on", "taken"}

\* What is in tBuf, the radio and nid are numbers of one request each, as long as no
\* request came between two looks at tBuf.
NumberInv ==
  /\ Number(tBuf) \in asked
  /\ mpc \in {"nidHi", "nidLo"} \cup TakingNumber => U0Ready
  /\ mpc \in {"nidHi", "nidLo"} => board = "imx6"
  /\ ~torn =>
       /\ mpc = "send2" => fifo[1] = tBuf.hi
       /\ mpc = "nidLo" => nid[1] = tBuf.hi
       /\ mpc \in TakingNumber /\ board = "imx6" => nid = Number(tBuf)
       /\ board = "imx6" /\ sFlag /\ ~U0Ready => nid = Number(tBuf)
       /\ mpc = "serial" /\ sFlag =>
            fifo \in asked /\ (board = "imx6" /\ ~U0Ready => fifo = nid)

\* The radio asks for a number of the host, and imx6 for the one it compares answers
\* with, unless a request came between two looks at the one before
\* (gateway-imx6 main.c:72-81, 188, 196-208).
THEOREM AskedIsSought == SerialSpec => []AsksWhatIsSought
<1>1. SerialInit => NumberInv
  BY DEF SerialInit, NumberInv, TakingNumber
<1>2. NumberInv /\ [SerialNext]_serialVars => NumberInv'
  <2> SUFFICES ASSUME NumberInv, [SerialNext]_serialVars PROVE NumberInv'
    OBVIOUS
  <2> USE DEF NumberInv, TakingNumber
  <2>1. CASE SerialMain
    <3>1. CASE Top \/ TellTimeout
      BY <3>1 DEF Top, TellTimeout, Searching, Tell, Goto, Quietly, gates, ghosts
    <3>2. CASE Turn \/ RecvData \/ Compare \/ Report
      BY <3>2 DEF Turn, RecvData, Compare, Report, Tell, Goto, Quietly, gates, ghosts
    <3>3. CASE CardFound
      BY <3>3 DEF CardFound, StopScan, Goto, Quietly, ghosts
    <3>4. CASE SendHigh
      BY <3>4 DEF SendHigh, Goto, Quietly, gates, ghosts
    <3>5. CASE SendLow
      BY <3>5 DEF SendLow, Number, Goto, Quietly, gates, ghosts
    <3>6. CASE Serial \/ Check
      BY <3>6 DEF Serial, Check, Goto, Quietly, gates, ghosts
    <3>7. CASE TakeNumber
      BY <3>7 DEF TakeNumber, Number, Goto, Quietly, gates, ghosts
    <3>8. CASE T1_ON \/ StartSearch
      BY <3>8 DEF T1_ON, StartSearch, Goto, Quietly, ghosts
    <3>9. CASE Taken
      BY <3>9 DEF Taken, Goto, gates, ghosts
    <3> QED
      BY <2>1, <3>1, <3>2, <3>3, <3>4, <3>5, <3>6, <3>7, <3>8, <3>9 DEF SerialMain
  <2>2. CASE ChangeTurn
    BY <2>2 DEF ChangeTurn, ghosts
  <2>3. CASE EndSearch
    BY <2>3 DEF EndSearch
  <2>4. ASSUME NEW f \in Requests, FrameEnds(f) PROVE NumberInv'
    <3>1. torn \/ AtRequest => torn'
      BY <2>4, Zenon DEF FrameEnds, Arrives
    <3>2. /\ UNCHANGED <<board, mpc, sFlag, fifo, nid>>
          /\ asked' = asked \cup {Number(f)}
      BY <2>4 DEF FrameEnds, Arrives, gates
    <3>3. CASE f.whole
      <4>1. Number(tBuf') = Number(f) /\ U0Ready' = TRUE
        BY <2>4, <3>3 DEF FrameEnds, Number
      <4> QED
        BY <3>1, <3>2, <4>1 DEF AtRequest
    <3>4. CASE ~f.whole
      BY <2>4, <3>1, <3>2, <3>4 DEF FrameEnds
    <3> QED
      BY <3>3, <3>4
  <2>5. CASE \E p \in Packets : PacketStarts(p) \/ PacketAgain(p)
    BY <2>5 DEF PacketStarts, PacketAgain, Goto, Quietly, gates, ghosts
  <2>6. CASE UNCHANGED serialVars
    BY <2>6 DEF serialVars, gates, ghosts
  <2> QED
    BY <2>1, <2>2, <2>3, <2>4, <2>5, <2>6 DEF SerialNext
<1>3. NumberInv => AsksWhatIsSought
  BY DEF NumberInv, AsksWhatIsSought
<1> QED
  BY <1>1, <1>2, <1>3, PTL DEF SerialSpec

\* Together: a search is safe however the host asks (gateway-imx6 main.c:72-81,
\* 116-130, 171-208).
THEOREM SearchIsSafe == SerialSpec => []SafeSearch
<1>1. AsksWhatIsSought /\ SearchHasLimit /\ ToldOnce => SafeSearch
  BY DEF SafeSearch
<1> QED
  BY <1>1, SearchIsLimited, EndIsToldOnce, AskedIsSought, PTL

-----------------------------------------------------------------------------
(* CardBoard                                                               *)

\* What is sent when the tag of a request was copied.
AnswerWith(tag) ==
  [head |-> IF kind = "v10" THEN Cards!ASK ELSE Cards!ANSWER,
   len |-> IF kind = "v10" THEN 2 ELSE 7, tag |-> tag, number |-> nId]

\* A tag that may be sent: none, that of a request, or what a packet left that came
\* between the look and the copy.
MaySend(tag) == tag = 0 \/ tag \in due \/ swapped

\* What is in rBuf with a length that is answered is a request for this card; the
\* packet that was looked at is not yet overwritten when its tag is copied.
BufferInv ==
  /\ kind = "v10" /\ len = 2 => rBuf.tag \in due
  /\ kind # "v10" /\ len = 7 /\ rBuf.number \in {nId, AllCards} => rBuf.tag \in due
  /\ (IF kind = "v10" THEN bpc = "copy" ELSE bpc \in {"mask", "copy"}) =>
       rBuf.tag \in due \/ swapped

BoardInv ==
  /\ Cards!BoardTypeOK
  /\ cardBuf = AnswerWith(cardBuf.tag) /\ MaySend(cardBuf.tag)
  /\ answered = Cards!Nothing \/ MaySend(answered.tag)
  /\ BufferInv
  /\ flag /\ bpc \in {"arm", "sleep", "asleep"} => cardRaced

LEMMA BoardInvInit == Cards!BoardInit => BoardInv
<1> SUFFICES ASSUME Cards!BoardInit PROVE BoardInv
  OBVIOUS
<1>1. Cards!BoardTypeOK
  <2>1. enabled /\ bpc = "asleep" /\ (cardBuf.head = Cards!ASK => kind = "v10")
    BY DEF Cards!BoardInit, Cards!ASK, Cards!ANSWER
  <2> QED
    BY <2>1, Zenon DEF Cards!BoardTypeOK
<1>2. cardBuf = AnswerWith(0) /\ cardBuf.tag = 0 /\ answered = Cards!Nothing /\ len = 0 /\ ~flag
  BY DEF Cards!BoardInit, AnswerWith
<1>3. bpc = "asleep"
  BY DEF Cards!BoardInit
<1> QED
  BY <1>1, <1>2, <1>3 DEF BoardInv, MaySend, BufferInv

\* The interrupt comes while it is enabled only: in "mask" and before, or when the loop is
\* over.
LEMMA HearKeeps ==
  ASSUME BoardInv, NEW p \in Air, Cards!Hear(p)
  PROVE  BoardInv'
<1>1. /\ UNCHANGED <<kind, enabled, cardBuf, answered>>
      /\ bpc' = IF bpc = "asleep" THEN "top" ELSE bpc
      /\ due \subseteq due' /\ (swapped => swapped')
      /\ (IF kind = "v10" THEN bpc = "copy" ELSE bpc = "mask") => swapped'
      /\ bpc # "asleep" => cardRaced'
  BY DEF Cards!Hear
<1>2. enabled /\ bpc \notin {"send", "deaf"} /\ (bpc = "copy" => kind = "v10")
  BY Zenon DEF BoardInv, Cards!BoardTypeOK, Cards!Hear
<1>3. Cards!BoardTypeOK'
  <2>1. enabled' /\ bpc' \notin {"send", "deaf"} /\ (bpc' = "copy" => kind' = "v10")
    BY <1>1, <1>2
  <2>2. bpc' \in {"asleep", "top", "look", "copy", "mask", "maskAll", "send", "deaf", "clear",
                  "arm", "sleep"}
    BY <1>1 DEF BoardInv, Cards!BoardTypeOK
  <2>3. cardBuf'.head = Cards!ASK => kind' = "v10"
    BY <1>1 DEF BoardInv, Cards!BoardTypeOK
  <2> QED
    BY <2>1, <2>2, <2>3, Zenon DEF Cards!BoardTypeOK
<1>4. cardBuf' = AnswerWith(cardBuf.tag)' /\ MaySend(cardBuf.tag)'
  BY <1>1 DEF BoardInv, AnswerWith, MaySend
<1>5. answered' = Cards!Nothing \/ MaySend(answered.tag)'
  BY <1>1 DEF BoardInv, MaySend
<1>6. kind' = "v10" /\ len' = 2 => rBuf'.tag \in due'
  BY <1>1 DEF Cards!Hear, Cards!ReadFIFO, Cards!ForMe
<1>7. kind' # "v10" /\ len' = 7 /\ rBuf'.number \in {nId, AllCards} => rBuf'.tag \in due'
  BY <1>1 DEF Cards!Hear, Cards!ReadFIFO, Cards!ForMe
<1>8. (IF kind' = "v10" THEN bpc' = "copy" ELSE bpc' \in {"mask", "copy"}) => swapped'
  BY <1>1, <1>2
<1>9. bpc' \in {"arm", "sleep", "asleep"} => cardRaced'
  BY <1>1
<1> QED
  BY <1>3, <1>4, <1>5, <1>6, <1>7, <1>8, <1>9 DEF BoardInv, BufferInv, Cards!Nothing

LEMMA LoopKeeps == BoardInv /\ Cards!BoardMain => BoardInv'
<1> SUFFICES ASSUME BoardInv, Cards!BoardMain PROVE BoardInv'
  OBVIOUS
<1>0. UNCHANGED <<kind, due, swapped, cardRaced, len, rBuf>>
  BY DEF Cards!BoardMain, Cards!Top, Cards!Look, Cards!Mask, Cards!Copy, Cards!Send,
    Cards!HearAgain, Cards!Clear, Cards!Arm, Cards!SetSleep, Cards!Still, Cards!ghosts
<1>1. Cards!BoardTypeOK'
  <2>1. bpc' \in {"asleep", "top", "look", "copy", "mask", "maskAll", "send", "deaf", "clear",
                  "arm", "sleep"}
    BY DEF BoardInv, Cards!BoardTypeOK, Cards!BoardMain, Cards!Top, Cards!Look, Cards!Mask,
      Cards!Copy, Cards!Send, Cards!HearAgain, Cards!Clear, Cards!Arm, Cards!SetSleep, Cards!Goto
  <2>2. enabled' = (bpc' \notin {"send", "deaf"} /\ (bpc' = "copy" => kind' = "v10"))
    BY <1>0 DEF BoardInv, Cards!BoardTypeOK, Cards!BoardMain, Cards!Top, Cards!Look, Cards!Mask,
      Cards!Copy, Cards!Send, Cards!HearAgain, Cards!Clear, Cards!Arm, Cards!SetSleep, Cards!Goto
  <2>3. cardBuf'.head = Cards!ASK => kind' = "v10"
    BY <1>0 DEF BoardInv, Cards!BoardTypeOK, AnswerWith, Cards!BoardMain, Cards!Top, Cards!Look,
      Cards!Mask, Cards!Copy, Cards!Send, Cards!HearAgain, Cards!Clear, Cards!Arm, Cards!SetSleep
  <2> QED
    BY <2>1, <2>2, <2>3, Zenon DEF Cards!BoardTypeOK
<1>2. cardBuf' = AnswerWith(cardBuf.tag)' /\ MaySend(cardBuf.tag)'
  <2>1. CASE Cards!Copy
    BY <1>0, <2>1 DEF BoardInv, BufferInv, MaySend, AnswerWith, Cards!Copy, Cards!Goto
  <2>2. CASE ~Cards!Copy
    <3>1. UNCHANGED cardBuf
      BY <2>2 DEF Cards!BoardMain, Cards!Top, Cards!Look, Cards!Mask, Cards!Send,
        Cards!HearAgain, Cards!Clear, Cards!Arm, Cards!SetSleep
    <3> QED
      BY <1>0, <3>1 DEF BoardInv, MaySend, AnswerWith
  <2> QED
    BY <2>1, <2>2
<1>3. answered' = Cards!Nothing \/ MaySend(answered.tag)'
  <2>1. UNCHANGED answered \/ answered' = cardBuf
    BY DEF Cards!BoardMain, Cards!Top, Cards!Look, Cards!Mask, Cards!Copy, Cards!Send,
      Cards!HearAgain, Cards!Clear, Cards!Arm, Cards!SetSleep
  <2> QED
    BY <1>0, <2>1 DEF BoardInv, MaySend
<1>4. BufferInv'
  <2>1. (IF kind = "v10" THEN bpc' = "copy" ELSE bpc' \in {"mask", "copy"}) =>
          rBuf.tag \in due \/ swapped
    BY DEF BoardInv, BufferInv, Cards!BoardMain, Cards!Top, Cards!Look, Cards!Mask,
      Cards!Copy, Cards!Send, Cards!HearAgain, Cards!Clear, Cards!Arm, Cards!SetSleep, Cards!Goto
  <2> QED
    BY <1>0, <2>1 DEF BoardInv, BufferInv
<1>5. flag' /\ bpc' \in {"arm", "sleep", "asleep"} => cardRaced'
  BY <1>0 DEF BoardInv, Cards!BoardMain, Cards!Top, Cards!Look, Cards!Mask,
    Cards!Copy, Cards!Send, Cards!HearAgain, Cards!Clear, Cards!Arm, Cards!SetSleep, Cards!Goto
<1> QED
  BY <1>1, <1>2, <1>3, <1>4, <1>5 DEF BoardInv, Cards!Nothing

\* Whatever packets come between the steps of a card's loop, and whoever sends them: an
\* answer has the tag of a request for the card, and the card sleeps on no packet, but for
\* the packets that came in a named moment (cards' main.c:108-162).
THEOREM AnswersAreDue == Cards!BoardSpec => [](Cards!AnswerIsDue /\ Cards!SleepsOnNothing)
<1>1. BoardInv /\ [Cards!BoardNext]_Cards!cardVars => BoardInv'
  <2> SUFFICES ASSUME BoardInv, [Cards!BoardNext]_Cards!cardVars PROVE BoardInv'
    OBVIOUS
  <2>1. CASE Cards!BoardMain
    BY <2>1, LoopKeeps
  <2>2. CASE \E p \in Air : Cards!Hear(p)
    BY <2>2, HearKeeps
  <2>3. CASE UNCHANGED Cards!cardVars
    BY <2>3 DEF Cards!cardVars, Cards!ghosts, BoardInv, Cards!BoardTypeOK, BufferInv, MaySend,
      AnswerWith, Cards!Nothing
  <2> QED
    BY <2>1, <2>2, <2>3 DEF Cards!BoardNext
<1>2. BoardInv => Cards!AnswerIsDue /\ Cards!SleepsOnNothing
  BY DEF BoardInv, MaySend, Cards!AnswerIsDue, Cards!SleepsOnNothing
<1> QED
  BY <1>1, <1>2, BoardInvInit, PTL DEF Cards!BoardSpec

-----------------------------------------------------------------------------
(* EvSet                                                                   *)

SedStates == {"none", "read", "write", "end"}
SedTypes ==
  /\ script \in [Lines -> 0..6]
  /\ sed \in [Lines -> [pc : SedStates, copy : [Lines -> 0..6]]]

\* Two seds on one file: a line is as it was until its sed has ended, a copy has of the
\* lines only those of a sed that ended before it was made, and the line of a sed that
\* ended stays as long as the other has not ended.
SedInv ==
  /\ SedTypes
  /\ (\E l \in Lines : sed[l].pc # "none") => epc \in {"wait", "exec"}
  /\ sed[10].pc # "none" => epc = "exec"
  /\ changed = {l \in Lines : sed[l].pc = "end"}
  /\ \A l \in Lines : sed[l].pc # "end" => script[l] = 0
  /\ \A l \in Lines : sed[l].copy[l] = 0
  /\ \A l, m \in Lines : sed[l].copy[m] # 0 => sed[m].pc = "end" /\ sed[l].copy[m] = event
  /\ \A l, m \in Lines : sed[l].pc = "end" /\ sed[m].pc # "end" => script[l] = event
  /\ LinesChanged

Usb == {"rfid", "scan", "touch"}
SeenOf(k) == \E d \in devices : d.opens /\ d.kind = k /\ d.hidraw \in seen
\* The path of a kind, before and after all are seen.
PathFor(k) == IF SeenOf(k) THEN TakenFor(dev_path[k], k) ELSE dev_path[k] = -1
EventFor ==
  IF SeenOf("touch") THEN \E d \in devices : event = EventOf(d.hidraw) /\ TakenFor(d.hidraw, "touch")
  ELSE event = 0

PathInv ==
  /\ devices \subseteq Devices
  /\ \A d, e \in devices : d.hidraw = e.hidraw => d = e
  /\ DOMAIN dev_path = {"rfid", "scan"}
  /\ number \in Nat
  /\ epc \notin {"get_number", "get_path"} /\ number >= 3 => seen = {d.hidraw : d \in devices}
  /\ usb_info.kind \in Usb => SeenOf(usb_info.kind)
  /\ \A k \in {"rfid", "scan"} : PathFor(k)
  /\ EventFor

EvInv == EvTypeOK /\ SedInv /\ PathInv

LEMMA EvInvInit == ASSUME Numbers \subseteq Nat PROVE EvInit => EvInv
<1> SUFFICES ASSUME EvInit PROVE EvInv
  OBVIOUS
<1>1. EvTypeOK
  BY DEF EvInit, EvTypeOK
<1>2. SedInv
  <2>1. /\ script = [l \in Lines |-> 0] /\ sed = [l \in Lines |-> [pc |-> "none", copy |-> script]]
        /\ changed = {}
    BY DEF EvInit
  <2>2. SedTypes /\ Lines # {}
    BY <2>1 DEF SedTypes, SedStates, Lines
  <2>3. LinesChanged
    BY <2>1, <2>2 DEF LinesChanged
  <2>4. \A l \in Lines : sed[l].pc = "none" /\ sed[l].copy = script /\ script[l] = 0
    BY <2>1
  <2>5. \A l, m \in Lines : sed[l].copy[m] = 0
    BY <2>4
  <2>6. 10 \in Lines
    BY DEF Lines
  <2> QED
    BY <2>1, <2>2, <2>3, <2>4, <2>5, <2>6 DEF SedInv
<1>3. PathInv
  <2>1. \A k : ~SeenOf(k)
    BY DEF EvInit, SeenOf
  <2>2. /\ \A k \in {"rfid", "scan"} : PathFor(k)
        /\ EventFor
    BY <2>1 DEF EvInit, PathFor, EventFor
  <2>3. /\ devices \subseteq Devices /\ \A d, e \in devices : d.hidraw = e.hidraw => d = e
        /\ DOMAIN dev_path = {"rfid", "scan"} /\ number \in Nat
        /\ epc = "get_number" /\ usb_info.kind = "unknown"
    BY DEF EvInit
  <2> QED
    BY <2>2, <2>3 DEF PathInv, Usb
<1> QED
  BY <1>1, <1>2, <1>3 DEF EvInv

LEMMA EventInRange == \A h : EventOf(h) \in 1..6
BY DEF EventOf

\* The next entry.
LEMMA EntryKeeps == EvInv /\ get_path => EvInv'
<1> SUFFICES ASSUME EvInv, get_path PROVE EvInv'
  OBVIOUS
<1>1. /\ UNCHANGED <<devices, number, epc, script, sed, changed>> /\ epc = "get_path"
  BY DEF get_path
<1>2. PICK d \in devices :
        /\ d.hidraw \notin seen
        /\ seen' = seen \cup {d.hidraw}
        /\ usb_info' = get_dev_info(d)
        /\ event' = IF usb_info'.kind = "touch" THEN EventOf(d.hidraw) ELSE event
        /\ dev_path' = IF usb_info'.kind \in {"rfid", "scan"}
                       THEN [dev_path EXCEPT ![usb_info'.kind] = d.hidraw] ELSE dev_path
  BY DEF get_path
<1>3. EvTypeOK'
  BY <1>1, <1>2, EventInRange DEF EvInv, EvTypeOK
<1>4. SedInv'
  <2>1. \A l \in Lines : sed[l].pc = "none"
    BY <1>1 DEF EvInv, SedInv
  <2>2. changed = {} /\ Lines # {} /\ \A l \in Lines : script[l] = 0
    BY <2>1 DEF EvInv, SedInv, Lines
  <2>3. LinesChanged'
    BY <1>1, <2>2 DEF LinesChanged
  <2>4. SedTypes'
    BY <1>1 DEF EvInv, SedInv, SedTypes
  <2>5. \A l, m \in Lines : sed[l].copy[m] = 0
    BY <2>1 DEF EvInv, SedInv
  <2> QED
    BY <1>1, <2>1, <2>2, <2>3, <2>4, <2>5 DEF EvInv, SedInv
<1>0. PICK u : u = usb_info'.kind
  OBVIOUS
<1>5. DOMAIN dev_path' = {"rfid", "scan"}
  BY <1>2 DEF EvInv, PathInv
<1>6. IF d.opens THEN u = d.kind ELSE u = usb_info.kind
  BY <1>0, <1>2 DEF get_dev_info
<1>7. \A k : SeenOf(k)' <=> SeenOf(k) \/ (d.opens /\ d.kind = k)
  BY <1>1, <1>2 DEF SeenOf, EvInv, PathInv
<1>8. u \in Usb => SeenOf(u)' /\ TakenFor(d.hidraw, u)
  <2> SUFFICES ASSUME u \in Usb PROVE SeenOf(u)' /\ TakenFor(d.hidraw, u)
    OBVIOUS
  <2>1. CASE d.opens
    BY <1>6, <1>7, <2>1 DEF TakenFor, EvInv, PathInv
  <2>2. CASE ~d.opens
    <3>1. SeenOf(u)
      BY <1>6, <2>2 DEF EvInv, PathInv
    <3> QED
      BY <1>7, <2>2, <3>1 DEF TakenFor, SeenOf, EvInv, PathInv
  <2> QED
    BY <2>1, <2>2
<1>10. \A k : SeenOf(k)' /\ k # u => SeenOf(k)
  BY <1>6, <1>7
<1>11. ASSUME NEW k \in {"rfid", "scan"} PROVE PathFor(k)'
  <2>1. CASE k = u
    <3>1. dev_path'[k] = d.hidraw
      BY <1>0, <1>2, <2>1 DEF EvInv, PathInv
    <3>2. SeenOf(k)' /\ TakenFor(d.hidraw, k)
      BY <1>8, <2>1 DEF Usb
    <3>3. TakenFor(dev_path[k], k)'
      BY <1>1, <3>1, <3>2 DEF TakenFor
    <3> QED
      BY <3>2, <3>3 DEF PathFor
  <2>2. CASE k # u
    <3>1. dev_path'[k] = dev_path[k]
      BY <1>0, <1>2, <2>2 DEF EvInv, PathInv
    <3>2. SeenOf(k)' <=> SeenOf(k)
      BY <1>7, <1>10, <2>2
    <3>3. PathFor(k)
      BY DEF EvInv, PathInv
    <3>4. TakenFor(dev_path[k], k)' <=> TakenFor(dev_path[k], k)
      BY <1>1, <3>1 DEF TakenFor
    <3> QED
      BY <3>1, <3>2, <3>3, <3>4 DEF PathFor
  <2> QED
    BY <2>1, <2>2
<1>12. EventFor'
  <2>0. \A h : EventOf(h)' = EventOf(h) /\ (TakenFor(h, "touch")' <=> TakenFor(h, "touch"))
    BY <1>1 DEF EventOf, TakenFor
  <2>1. CASE u = "touch"
    <3>1. event' = EventOf(d.hidraw) /\ SeenOf("touch")' /\ TakenFor(d.hidraw, "touch")
      BY <1>0, <1>2, <1>8, <2>1 DEF Usb
    <3> QED
      BY <1>1, <2>0, <3>1 DEF EventFor
  <2>2. CASE u # "touch"
    <3>1. event' = event
      BY <1>0, <1>2, <2>2
    <3>2. SeenOf("touch")' <=> SeenOf("touch")
      BY <1>7, <1>10, <2>2
    <3>3. EventFor
      BY DEF EvInv, PathInv
    <3> QED
      BY <1>1, <2>0, <3>1, <3>2, <3>3 DEF EventFor
  <2> QED
    BY <2>1, <2>2
<1>13. u \in Usb => SeenOf(u)'
  BY <1>8
<1>14. PathInv'
  <2>1. usb_info'.kind \in Usb => SeenOf(usb_info.kind)'
    BY <1>0, <1>13 DEF SeenOf
  <2> QED
    BY <1>1, <1>5, <1>11, <1>12, <2>1 DEF EvInv, PathInv
<1> QED
  BY <1>3, <1>4, <1>14 DEF EvInv

\* The steps that leave what get_path found alone.
LEMMA PathsStay ==
  ASSUME PathInv, UNCHANGED <<devices, number, seen, usb_info, dev_path, event>>,
         \/ epc' = epc
         \/ epc \notin {"get_number", "get_path"}
         \/ epc' = "get_path"
         \/ epc = "get_number" /\ number < 3
         \/ seen = {d.hidraw : d \in devices}
  PROVE  PathInv'
<1>1. epc' \notin {"get_number", "get_path"} /\ number >= 3 => seen = {d.hidraw : d \in devices}
  BY DEF PathInv
<1>2. \A k : (SeenOf(k)' <=> SeenOf(k)) /\ \A h : TakenFor(h, k)' <=> TakenFor(h, k)
  BY DEF SeenOf, TakenFor
<1>3. \A k : PathFor(k)' <=> PathFor(k)
  BY <1>2 DEF PathFor, TakenFor, SeenOf
<1>4. EventFor' <=> EventFor
  BY DEF EventFor, SeenOf, TakenFor, EventOf
<1>5. SeenOf(usb_info.kind)' <=> SeenOf(usb_info.kind)
  BY DEF SeenOf
<1> QED
  BY <1>1, <1>3, <1>4, <1>5 DEF PathInv

LEMMA SedKeeps ==
  ASSUME EvInv, NEW l \in Lines, SedReads(l) \/ SedWrites(l)
  PROVE  EvInv'
<1>1. UNCHANGED <<devices, number, epc, seen, usb_info, dev_path, event>>
  BY DEF SedReads, SedWrites
<1>2. EvTypeOK' /\ PathInv'
  BY <1>1, PathsStay DEF EvInv, EvTypeOK
<1> SUFFICES SedInv'
  BY <1>2 DEF EvInv
<1>3. event \in 0..6 /\ SedTypes
  BY DEF EvInv, EvTypeOK, SedInv
<1>4. PICK m \in Lines : m # l /\ Lines = {l, m}
  BY DEF Lines
<1>5. /\ (\E k \in Lines : sed[k].pc # "none") => epc \in {"wait", "exec"}
      /\ sed[10].pc # "none" => epc = "exec"
      /\ changed = {k \in Lines : sed[k].pc = "end"}
      /\ \A k \in Lines : sed[k].pc # "end" => script[k] = 0
      /\ \A k \in Lines : sed[k].copy[k] = 0
      /\ \A j, k \in Lines : sed[j].copy[k] # 0 => sed[k].pc = "end" /\ sed[j].copy[k] = event
      /\ \A j, k \in Lines : sed[j].pc = "end" /\ sed[k].pc # "end" => script[j] = event
      /\ LinesChanged
  BY Zenon DEF EvInv, SedInv
<1>6. CASE SedReads(l)
  <2>1. /\ sed[l].pc = "read" /\ sed' = [sed EXCEPT ![l] = [pc |-> "write", copy |-> script]]
        /\ UNCHANGED <<script, changed>>
    BY <1>6 DEF SedReads
  <2>2. /\ sed'[m] = sed[m] /\ sed'[l].pc = "write" /\ sed'[l].copy = script
        /\ SedTypes'
    BY <1>3, <1>4, <2>1 DEF SedTypes, SedStates
  <2>3. epc \in {"wait", "exec"} /\ script[l] = 0 /\ l \notin changed
    BY <1>5, <2>1
  <2>4. script[m] # 0 => sed[m].pc = "end" /\ script[m] = event
    BY <1>4, <1>5, <2>1
  <2>5. changed' = {k \in Lines : sed'[k].pc = "end"}
    BY <1>4, <1>5, <2>1, <2>2
  <2>6. \A k \in Lines : sed'[k].pc # "end" => script'[k] = 0
    BY <1>4, <1>5, <2>1, <2>2, <2>3
  <2>7. \A k \in Lines : sed'[k].copy[k] = 0
    BY <1>4, <1>5, <2>2, <2>3
  <2>8. \A j, k \in Lines : sed'[j].copy[k] # 0 => sed'[k].pc = "end" /\ sed'[j].copy[k] = event'
    <3>1. sed[m].copy[l] = 0
      BY <1>5, <2>1
    <3> QED
      BY <1>1, <1>4, <1>5, <2>2, <2>3, <2>4, <3>1
  <2>9. \A j, k \in Lines : sed'[j].pc = "end" /\ sed'[k].pc # "end" => script'[j] = event'
    BY <1>1, <1>4, <1>5, <2>1, <2>2
  <2>11. sed'[10].pc # "none" => epc' = "exec"
    BY <1>1, <1>4, <1>5, <2>1, <2>2
  <2>10. LinesChanged'
    <3>1. changed' # Lines
      BY <2>1, <2>3
    <3> QED
      BY <1>1, <1>5, <2>1, <3>1 DEF LinesChanged
  <2> QED
    BY <1>1, <2>2, <2>3, <2>5, <2>6, <2>7, <2>8, <2>9, <2>10, <2>11 DEF SedInv
<1>7. CASE SedWrites(l)
  <2>1. /\ sed[l].pc = "write" /\ sed' = [sed EXCEPT ![l].pc = "end"]
        /\ script' = [sed[l].copy EXCEPT ![l] = event] /\ changed' = changed \cup {l}
    BY <1>7 DEF SedWrites
  <2>2. /\ sed'[m] = sed[m] /\ sed'[l].pc = "end" /\ sed'[l].copy = sed[l].copy
        /\ script'[l] = event /\ script'[m] = sed[l].copy[m]
        /\ SedTypes'
    BY <1>3, <1>4, <2>1 DEF SedTypes, SedStates
  <2>3. epc \in {"wait", "exec"} /\ l \notin changed /\ sed[m].copy[l] = 0
    BY <1>5, <2>1
  <2>4. changed' = {k \in Lines : sed'[k].pc = "end"}
    BY <1>4, <1>5, <2>1, <2>2
  <2>5. \A k \in Lines : sed'[k].pc # "end" => script'[k] = 0
    BY <1>4, <1>5, <2>2
  <2>6. \A k \in Lines : sed'[k].copy[k] = 0
    BY <1>4, <1>5, <2>2
  <2>7. \A j, k \in Lines : sed'[j].copy[k] # 0 => sed'[k].pc = "end" /\ sed'[j].copy[k] = event'
    BY <1>1, <1>4, <1>5, <2>2
  <2>8. \A j, k \in Lines : sed'[j].pc = "end" /\ sed'[k].pc # "end" => script'[j] = event'
    BY <1>1, <1>4, <2>2
  <2>11. sed'[10].pc # "none" => epc' = "exec"
    BY <1>1, <1>4, <1>5, <2>1, <2>2
  <2>9. LinesChanged'
    <3>1. \A k \in Lines : script'[k] \in {0, event'}
      BY <1>1, <1>4, <1>5, <2>2
    <3>2. CASE sed[l].copy[m] = 0
      <4>1. \A j, k \in Lines : changed' = Lines => sed'[j].copy[k] = 0
        BY <1>4, <1>5, <2>2, <2>3, <3>2
      <4> QED
        BY <1>1, <2>2, <3>1, <4>1 DEF LinesChanged
    <3>3. CASE sed[l].copy[m] # 0
      <4>1. script'[m] = event
        BY <1>5, <2>2, <3>3
      <4> QED
        BY <1>1, <1>4, <2>2, <3>1, <4>1 DEF LinesChanged
    <3> QED
      BY <3>2, <3>3
  <2> QED
    BY <1>1, <2>2, <2>3, <2>4, <2>5, <2>6, <2>7, <2>8, <2>9, <2>11 DEF SedInv
<1> QED
  BY <1>6, <1>7

\* The start of a sed.
LEMMA SedStarts ==
  ASSUME EvInv, NEW l \in Lines, sed[l].pc = "none", sed' = [sed EXCEPT ![l].pc = "read"],
         UNCHANGED <<event, script, changed>>, epc' \in {"wait", "exec"}, l = 10 <=> epc' = "exec",
         sed[10].pc = "none"
  PROVE  SedInv'
<1>1. /\ \A k \in Lines : k # l => sed'[k] = sed[k]
      /\ sed'[l].pc = "read" /\ sed'[l].copy = sed[l].copy
      /\ SedTypes'
  BY DEF EvInv, SedInv, SedTypes, SedStates
<1>2. /\ changed = {k \in Lines : sed[k].pc = "end"}
      /\ \A k \in Lines : sed[k].pc # "end" => script[k] = 0
      /\ \A k \in Lines : sed[k].copy[k] = 0
      /\ \A j, k \in Lines : sed[j].copy[k] # 0 => sed[k].pc = "end" /\ sed[j].copy[k] = event
      /\ \A j, k \in Lines : sed[j].pc = "end" /\ sed[k].pc # "end" => script[j] = event
      /\ LinesChanged
  BY Zenon DEF EvInv, SedInv
<1>3. \A k \in Lines : (sed'[k].pc = "end" <=> sed[k].pc = "end") /\ sed'[k].copy = sed[k].copy
  BY <1>1
<1>4. changed' = {k \in Lines : sed'[k].pc = "end"}
  BY <1>2, <1>3
<1>5. LinesChanged'
  BY <1>2, <1>3 DEF LinesChanged
<1>6. sed'[10].pc # "none" => epc' = "exec"
  BY <1>1 DEF Lines
<1> QED
  BY <1>1, <1>2, <1>3, <1>4, <1>5, <1>6 DEF SedInv

LEMMA EvInvNext == EvInv /\ [EvNext]_evVars => EvInv'
<1> SUFFICES ASSUME EvInv, [EvNext]_evVars PROVE EvInv'
  OBVIOUS
<1>1. CASE get_number \/ AllSeen
  <2>1. /\ UNCHANGED <<devices, number, seen, usb_info, dev_path, event, script, sed, changed>>
        /\ epc \in {"get_number", "get_path"}
    BY <1>1 DEF get_number, AllSeen
  <2>2. EvTypeOK' /\ PathInv'
    BY <1>1, <2>1, PathsStay DEF get_number, AllSeen, EvInv, EvTypeOK
  <2>3. SedTypes' /\ LinesChanged' /\ \A l \in Lines : sed[l].pc = "none"
    BY <2>1 DEF EvInv, SedInv, SedTypes, LinesChanged
  <2>4. SedInv'
    BY <2>1, <2>3 DEF EvInv, SedInv
  <2> QED
    BY <2>2, <2>4 DEF EvInv
<1>2. CASE get_path
  BY <1>2, EntryKeeps
<1>3. CASE Fork
  <2>1. /\ UNCHANGED <<devices, number, seen, usb_info, dev_path, event, script, changed>>
        /\ epc = "fork"
        /\ \/ epc' = "end" /\ UNCHANGED sed
           \/ epc' = "wait" /\ sed' = [sed EXCEPT ![2].pc = "read"]
    BY <1>3 DEF Fork
  <2>2. PathInv' /\ EvTypeOK'
    BY <2>1, PathsStay DEF EvInv, EvTypeOK
  <2>3. \A l \in Lines : sed[l].pc = "none"
    BY <2>1 DEF EvInv, SedInv
  <2>4. CASE epc' = "end" /\ UNCHANGED sed
    <3>1. SedTypes' /\ LinesChanged'
      BY <2>1, <2>4 DEF EvInv, SedInv, SedTypes, LinesChanged
    <3> QED
      BY <2>1, <2>2, <2>3, <2>4, <3>1 DEF EvInv, SedInv
  <2>5. CASE epc' = "wait" /\ sed' = [sed EXCEPT ![2].pc = "read"]
    BY <2>1, <2>2, <2>3, <2>5, SedStarts DEF Lines, EvInv
  <2> QED
    BY <2>1, <2>4, <2>5
<1>6. CASE WaitAndExec
  <2>1. /\ UNCHANGED <<devices, number, seen, usb_info, dev_path, event, script, changed>>
        /\ epc = "wait" /\ epc' = "exec" /\ sed' = [sed EXCEPT ![10].pc = "read"]
    BY <1>6 DEF WaitAndExec
  <2>2. PathInv' /\ EvTypeOK'
    BY <2>1, PathsStay DEF EvInv, EvTypeOK
  <2>3. sed[10].pc = "none"
    BY <2>1 DEF EvInv, SedInv
  <2> QED
    BY <2>1, <2>2, <2>3, SedStarts DEF Lines, EvInv
<1>4. CASE \E l \in Lines : SedReads(l) \/ SedWrites(l)
  BY <1>4, SedKeeps
<1>5. CASE UNCHANGED evVars
  <2>1. UNCHANGED <<devices, number, epc, seen, usb_info, dev_path, event, script, sed, changed>>
    BY <1>5 DEF evVars
  <2>2. PathInv' /\ EvTypeOK' /\ SedTypes' /\ LinesChanged'
    BY <2>1, PathsStay DEF EvInv, EvTypeOK, SedInv, SedTypes, LinesChanged
  <2> QED
    BY <2>1, <2>2 DEF EvInv, SedInv
<1> QED
  BY <1>1, <1>2, <1>3, <1>4, <1>5, <1>6 DEF EvNext


\* In whatever order the directory has them and whether or not the first sed is waited for,
\* the start script names only the event that was found and loses one of its two lines at
\* the most, and the paths are those of devices of the right kind as far as they can be
\* opened (ev_set.c:120-243).
THEOREM ScriptGetsPaths ==
  ASSUME Numbers \subseteq Nat
  PROVE  EvSpec => [](EvTypeOK /\ LinesChanged /\ PathsAreTheirs)
<1>1. EvInv => EvTypeOK /\ LinesChanged /\ PathsAreTheirs
  <2> SUFFICES ASSUME EvInv PROVE LinesChanged /\ PathsAreTheirs
    BY DEF EvInv
  <2>1. LinesChanged
    BY DEF EvInv, SedInv
  <2>2. ASSUME epc \notin {"get_number", "get_path"}, number >= 3 PROVE PathsAreTheirs
    <3>1. seen = {d.hidraw : d \in devices}
      BY <2>2 DEF EvInv, PathInv
    <3>2. \A k : SeenOf(k) <=> \E d \in devices : d.opens /\ d.kind = k
      BY <3>1 DEF SeenOf
    <3>3. (\A k \in {"rfid", "scan"} : PathFor(k)) /\ EventFor
      BY DEF EvInv, PathInv
    <3> QED
      BY <3>2, <3>3 DEF PathsAreTheirs, PathFor, EventFor
  <2> QED
    BY <2>1, <2>2 DEF PathsAreTheirs
<1> QED
  BY <1>1, EvInvInit, EvInvNext, PTL DEF EvSpec

-----------------------------------------------------------------------------
(* Track                                                                   *)

LEMMA Powers ==
  10^0 = 1 /\ 10^1 = 10 /\ 10^2 = 100 /\ 10^3 = 1000 /\ 10^4 = 10000 /\ 10^5 = 100000
OBVIOUS

\* The figures of a number, and their characters.
LEMMA OneFigure ==
  ASSUME NEW v \in Nat
  PROVE  Figures(v, 1) = <<v % 10>> /\ Text_(v, 1) = <<48 + (v % 10)>>
BY Powers DEF Figures, Text_

LEMMA TwoFigures ==
  ASSUME NEW v \in Nat
  PROVE  /\ Figures(v, 2) = <<(v \div 10) % 10, v % 10>>
         /\ Text_(v, 2) = <<48 + ((v \div 10) % 10), 48 + (v % 10)>>
BY Powers DEF Figures, Text_

LEMMA ThreeFigures ==
  ASSUME NEW v \in Nat
  PROVE  /\ Figures(v, 3) = <<(v \div 100) % 10, (v \div 10) % 10, v % 10>>
         /\ Text_(v, 3) = <<48 + ((v \div 100) % 10), 48 + ((v \div 10) % 10), 48 + (v % 10)>>
BY Powers DEF Figures, Text_

LEMMA SixFigures ==
  ASSUME NEW v \in Nat
  PROVE  \E a, b, c, d, e, f \in 0..9 :
           /\ Figures(v, 6) = <<a, b, c, d, e, f>>
           /\ Text_(v, 6) = <<48 + a, 48 + b, 48 + c, 48 + d, 48 + e, 48 + f>>
<1> DEFINE s(k) == (v \div 10^(6 - k)) % 10
<1>1. s(1) \in 0..9 /\ s(2) \in 0..9 /\ s(3) \in 0..9 /\ s(4) \in 0..9 /\ s(5) \in 0..9 /\ s(6) \in 0..9
  BY Powers
<1>2. Figures(v, 6) = <<s(1), s(2), s(3), s(4), s(5), s(6)>>
  BY DEF Figures
<1>3. Text_(v, 6) = <<48 + s(1), 48 + s(2), 48 + s(3), 48 + s(4), 48 + s(5), 48 + s(6)>>
  BY DEF Text_, Figures
<1> QED
  BY <1>1, <1>2, <1>3, Zenon

\* Three figures make a number up to 180.
LEMMA HundredsTensUnits ==
  ASSUME NEW d \in 0..180
  PROVE  ((d \div 100) % 10) * 100 + ((d \div 10) % 10) * 10 + (d % 10) = d
<1>1. d \div 100 = IF d < 100 THEN 0 ELSE 1
  OBVIOUS
<1>2. (d \div 100) % 10 = IF d < 100 THEN 0 ELSE 1
  BY <1>1
<1>3. PICK q \in 0..18, t \in 0..9 : d = 10 * q + t
  <2>1. d \div 10 \in 0..18 /\ d % 10 \in 0..9 /\ d = 10 * (d \div 10) + (d % 10)
    OBVIOUS
  <2> QED
    BY <2>1
<1>4. d \div 10 = q /\ d % 10 = t
  BY <1>3
<1>5. q % 10 = IF q < 10 THEN q ELSE q - 10
  BY <1>3
<1> QED
  BY <1>2, <1>3, <1>4, <1>5

\* The only dot of a text is found.
LEMMA OneDot ==
  ASSUME NEW s, NEW n, NEW i \in Nat, {k \in 0..n-1 : k < Len(s) /\ s[k + 1] = Dot} = {i}
  PROVE  dotAt(s, n) = i
<1> DEFINE at == {k \in 0..n-1 : k < Len(s) /\ s[k + 1] = Dot}
<1>1. dotAt(s, n) = IF at = {} THEN n ELSE CHOOSE k \in at : \A l \in at : k <= l
  BY Zenon DEF dotAt
<1>2. at = {i}
  OBVIOUS
<1> HIDE DEF at
<1>3. dotAt(s, n) = CHOOSE k \in {i} : \A l \in {i} : k <= l
  BY <1>1, <1>2
<1>4. \E k \in {i} : \A l \in {i} : k <= l
  OBVIOUS
<1>5. (CHOOSE k \in {i} : \A l \in {i} : k <= l) \in {i}
  BY <1>4
<1> QED
  BY <1>3, <1>5

LEMMA NoDot ==
  ASSUME NEW s, NEW n, {k \in 0..n-1 : k < Len(s) /\ s[k + 1] = Dot} = {}
  PROVE  dotAt(s, n) = n
BY Zenon DEF dotAt

\* The eight figures of the minutes.
Eight(g) ==
  /\ g[1] \in 0..9 /\ g[2] \in 0..9 /\ g[3] \in 0..9 /\ g[4] \in 0..9
  /\ g[5] \in 0..9 /\ g[6] \in 0..9 /\ g[7] \in 0..9 /\ g[8] \in 0..9

\* Degrees and the half bytes of the minutes.
Packed(degrees, g) ==
  <<degrees, g[1] * 16 + g[2], g[3] * 16 + g[4], g[5] * 16 + g[6], g[7] * 16 + g[8]>>

\* The text of a latitude in half bytes: the degrees as a number, the minutes as figures.
TextLatitude(s, a, b, g) ==
  /\ Len(s) = 11
  /\ s[1] = 48 + a /\ s[2] = 48 + b /\ s[3] = 48 + g[1] /\ s[4] = 48 + g[2]
  /\ s[5] = Dot /\ s[6] = 48 + g[3] /\ s[7] = 48 + g[4] /\ s[8] = 48 + g[5]
  /\ s[9] = 48 + g[6] /\ s[10] = 48 + g[7] /\ s[11] = 48 + g[8]

LEMMA LatitudePacked ==
  ASSUME NEW a \in 0..9, NEW b \in 0..9, NEW g, Eight(g),
         NEW s, TextLatitude(s, a, b, g)
  PROVE  Str2Hex(s) = Packed(a * 10 + b, g)
<1>1. g[1] \in 0..9 /\ g[2] \in 0..9 /\ g[3] \in 0..9 /\ g[4] \in 0..9 /\ g[5] \in 0..9
      /\ g[6] \in 0..9 /\ g[7] \in 0..9 /\ g[8] \in 0..9
  BY DEF Eight
<1>2. Len(s) = 11
  BY DEF TextLatitude
<1>3. dotAt(s, 12) = 4
  <2>1. \A j \in 1..11 : s[j] = Dot <=> j = 5
    <3>1. /\ s[1] # Dot /\ s[2] # Dot /\ s[3] # Dot /\ s[4] # Dot /\ s[6] # Dot /\ s[7] # Dot
          /\ s[8] # Dot /\ s[9] # Dot /\ s[10] # Dot /\ s[11] # Dot /\ s[5] = Dot
      BY <1>1 DEF TextLatitude, Dot
    <3>2. \A j \in 1..11 : j = 1 \/ j = 2 \/ j = 3 \/ j = 4 \/ j = 5 \/ j = 6 \/ j = 7 \/ j = 8 \/ j = 9 \/ j = 10 \/ j = 11
      OBVIOUS
    <3> QED
      BY <3>1, <3>2
  <2>2. {k \in 0..12-1 : k < Len(s) /\ s[k + 1] = Dot} = {4}
    BY <1>2, <2>1
  <2> QED
    BY <2>2, OneDot
<1>4. /\ ocHex(s, 0) = a /\ ocHex(s, 1) = b /\ ocHex(s, 2) = g[1]
      /\ ocHex(s, 3) = g[2] /\ ocHex(s, 5) = g[3] /\ ocHex(s, 6) = g[4]
      /\ ocHex(s, 7) = g[5] /\ ocHex(s, 8) = g[6] /\ ocHex(s, 9) = g[7]
      /\ ocHex(s, 10) = g[8]
  BY <1>1 DEF TextLatitude, ocHex
<1>5. /\ two(s, 2) = g[1] * 16 + g[2] /\ two(s, 5) = g[3] * 16 + g[4]
      /\ two(s, 7) = g[5] * 16 + g[6] /\ two(s, 9) = g[7] * 16 + g[8]
  BY <1>4 DEF two
<1>6. Str2Hex(s) = <<ocHex(s, 0) * 10 + ocHex(s, 1), two(s, 2), two(s, 5),
                     two(s, 7), two(s, 9)>>
  <2>1. dotAt(s, 12) # 5
    BY <1>3
  <2> QED
    BY <1>3, <2>1, Zenon DEF Str2Hex
<1> QED
  BY <1>4, <1>5, <1>6 DEF Packed

\* So is that of a longitude.
TextLongitude(s, a, b, c, g) ==
  /\ Len(s) = 12
  /\ s[1] = 48 + a /\ s[2] = 48 + b /\ s[3] = 48 + c /\ s[4] = 48 + g[1]
  /\ s[5] = 48 + g[2] /\ s[6] = Dot /\ s[7] = 48 + g[3] /\ s[8] = 48 + g[4]
  /\ s[9] = 48 + g[5] /\ s[10] = 48 + g[6] /\ s[11] = 48 + g[7]
  /\ s[12] = 48 + g[8]

LEMMA LongitudePacked ==
  ASSUME NEW a \in 0..9, NEW b \in 0..9, NEW c \in 0..9, NEW g, Eight(g),
         NEW s, TextLongitude(s, a, b, c, g)
  PROVE  Str2Hex(s) = Packed(a * 100 + b * 10 + c, g)
<1>1. g[1] \in 0..9 /\ g[2] \in 0..9 /\ g[3] \in 0..9 /\ g[4] \in 0..9 /\ g[5] \in 0..9
      /\ g[6] \in 0..9 /\ g[7] \in 0..9 /\ g[8] \in 0..9
  BY DEF Eight
<1>2. Len(s) = 12
  BY DEF TextLongitude
<1>3. dotAt(s, 12) = 5
  <2>1. \A j \in 1..12 : s[j] = Dot <=> j = 6
    <3>1. /\ s[1] # Dot /\ s[2] # Dot /\ s[3] # Dot /\ s[4] # Dot /\ s[5] # Dot /\ s[7] # Dot
          /\ s[8] # Dot /\ s[9] # Dot /\ s[10] # Dot /\ s[11] # Dot /\ s[12] # Dot /\ s[6] = Dot
      BY <1>1 DEF TextLongitude, Dot
    <3>2. \A j \in 1..12 : j = 1 \/ j = 2 \/ j = 3 \/ j = 4 \/ j = 5 \/ j = 6 \/ j = 7 \/ j = 8 \/ j = 9 \/ j = 10 \/ j = 11 \/ j = 12
      OBVIOUS
    <3> QED
      BY <3>1, <3>2
  <2>2. {k \in 0..12-1 : k < Len(s) /\ s[k + 1] = Dot} = {5}
    BY <1>2, <2>1
  <2> QED
    BY <2>2, OneDot
<1>4. /\ ocHex(s, 0) = a /\ ocHex(s, 1) = b /\ ocHex(s, 2) = c
      /\ ocHex(s, 3) = g[1] /\ ocHex(s, 4) = g[2] /\ ocHex(s, 6) = g[3]
      /\ ocHex(s, 7) = g[4] /\ ocHex(s, 8) = g[5] /\ ocHex(s, 9) = g[6]
      /\ ocHex(s, 10) = g[7] /\ ocHex(s, 11) = g[8]
  BY <1>1 DEF TextLongitude, ocHex
<1>5. /\ two(s, 3) = g[1] * 16 + g[2] /\ two(s, 6) = g[3] * 16 + g[4]
      /\ two(s, 8) = g[5] * 16 + g[6] /\ two(s, 10) = g[7] * 16 + g[8]
  BY <1>4 DEF two
<1>6. Str2Hex(s) = <<ocHex(s, 0) * 100 + ocHex(s, 1) * 10 + ocHex(s, 2), two(s, 3), two(s, 6),
                     two(s, 8), two(s, 10)>>
  <2>1. dotAt(s, 12) # 4
    BY <1>3
  <2> QED
    BY <1>3, <2>1, Zenon DEF Str2Hex
<1> QED
  BY <1>4, <1>5, <1>6 DEF Packed

\* The half bytes of the minutes are read as they were packed.
LEMMA MinutesRead ==
  ASSUME NEW g, Eight(g), NEW d,
         NEW b, b = Packed(d, g)
  PROVE  minutes(b) = <<g[1], g[2], g[3], g[4], g[5], g[6], g[7], g[8]>>
<1>1. \A h, l \in 0..9 : tab((h * 16 + l) \div 16) = h /\ tab((h * 16 + l) % 16) = l
  BY DEF tab
<1>2. g[1] \in 0..9 /\ g[2] \in 0..9 /\ g[3] \in 0..9 /\ g[4] \in 0..9 /\ g[5] \in 0..9
      /\ g[6] \in 0..9 /\ g[7] \in 0..9 /\ g[8] \in 0..9
  BY DEF Eight
<1> QED
  BY <1>1, <1>2 DEF minutes, Packed

\* The figures of the minutes of a fix.
MinuteFigures(m, p) == Figures(m, 2) \o Figures(p, 6)

\* Latitude and longitude, packed and read.
ReadBack(d, m, p) ==
  LET lat == Str2Hex(Latitude(d % 90, m, p))
      lon == Str2Hex(Longitude(d, m, p))
  IN  /\ lat \in Seq(Nat) /\ Len(lat) = 5 /\ lat[1] = d % 90
      /\ lon \in Seq(Nat) /\ Len(lon) = 5 /\ lon[1] = d
      /\ minutes(lat) = MinuteFigures(m, p) /\ minutes(lon) = MinuteFigures(m, p)

LEMMA PositionRead ==
  ASSUME NEW d \in 0..180, NEW m \in 0..99, NEW p \in Nat
  PROVE  ReadBack(d, m, p)
<1>1. PICK p1, p2, p3, p4, p5, p6 \in 0..9 :
        /\ Figures(p, 6) = <<p1, p2, p3, p4, p5, p6>>
        /\ Text_(p, 6) = <<48 + p1, 48 + p2, 48 + p3, 48 + p4, 48 + p5, 48 + p6>>
  BY SixFigures
<1>2. PICK m1, m2 \in 0..9 : Figures(m, 2) = <<m1, m2>> /\ Text_(m, 2) = <<48 + m1, 48 + m2>>
  <2>1. m \in Nat /\ (m \div 10) % 10 \in 0..9 /\ m % 10 \in 0..9
    OBVIOUS
  <2> QED
    BY <2>1, TwoFigures, Zenon
<1>3. PICK g : g = <<m1, m2, p1, p2, p3, p4, p5, p6>> /\ MinuteFigures(m, p) = g
  <2> DEFINE s == <<m1, m2>> \o <<p1, p2, p3, p4, p5, p6>>
  <2>1. s \in Seq(0..9) /\ Len(s) = 8 /\ s[1] = m1 /\ s[2] = m2 /\ s[3] = p1 /\ s[4] = p2
        /\ s[5] = p3 /\ s[6] = p4 /\ s[7] = p5 /\ s[8] = p6
    OBVIOUS
  <2>2. MinuteFigures(m, p) = s
    BY <1>1, <1>2 DEF MinuteFigures
  <2> HIDE DEF s
  <2>3. s = <<m1, m2, p1, p2, p3, p4, p5, p6>>
    BY <2>1
  <2> QED
    BY <2>2, <2>3
<1>4. /\ g[1] = m1 /\ g[2] = m2 /\ g[3] = p1 /\ g[4] = p2 /\ g[5] = p3 /\ g[6] = p4
      /\ g[7] = p5 /\ g[8] = p6 /\ Eight(g)
  BY <1>3 DEF Eight
<1>5. Str2Hex(Latitude(d % 90, m, p)) =
        Packed(d % 90, g)
  <2>1. PICK n \in 0..89 : n = d % 90
    OBVIOUS
  <2>2. PICK a, b \in 0..9 : a * 10 + b = n /\ Text_(n, 2) = <<48 + a, 48 + b>>
    <3>1. n \in Nat /\ (n \div 10) % 10 \in 0..9 /\ n % 10 \in 0..9
          /\ ((n \div 10) % 10) * 10 + (n % 10) = n
      OBVIOUS
    <3> QED
      BY <3>1, TwoFigures, Zenon
  <2>3. Latitude(n, m, p) = <<48 + a, 48 + b>> \o <<48 + m1, 48 + m2>> \o <<Dot>>
                              \o <<48 + p1, 48 + p2, 48 + p3, 48 + p4, 48 + p5, 48 + p6>>
    BY <1>1, <1>2, <2>2, Zenon DEF Latitude
  <2>4. PICK s : s = Latitude(n, m, p)
    OBVIOUS
  <2>5. s \in Seq(Nat) /\ Len(s) = 11 /\ s[1] = 48 + a /\ s[2] = 48 + b /\ s[3] = 48 + m1
        /\ s[4] = 48 + m2 /\ s[5] = Dot /\ s[6] = 48 + p1 /\ s[7] = 48 + p2 /\ s[8] = 48 + p3
        /\ s[9] = 48 + p4 /\ s[10] = 48 + p5 /\ s[11] = 48 + p6
    BY <2>3, <2>4 DEF Dot
  <2>6. TextLatitude(s, a, b, g)
    BY <1>4, <2>5 DEF TextLatitude
  <2>7. Str2Hex(s) = Packed(a * 10 + b, g)
    <3>1. Eight(g) /\ a \in 0..9 /\ b \in 0..9
      BY <1>4
    <3> QED
      BY ONLY <2>6, <3>1, LatitudePacked
  <2> QED
    BY <2>1, <2>2, <2>4, <2>7
<1>6. Str2Hex(Longitude(d, m, p)) =
        Packed(d, g)
  <2>1. PICK a, b, c \in 0..9 :
          a * 100 + b * 10 + c = d /\ Text_(d, 3) = <<48 + a, 48 + b, 48 + c>>
    <3>1. d \in Nat /\ (d \div 100) % 10 \in 0..9 /\ (d \div 10) % 10 \in 0..9 /\ d % 10 \in 0..9
      OBVIOUS
    <3>2. ((d \div 100) % 10) * 100 + ((d \div 10) % 10) * 10 + (d % 10) = d
      BY HundredsTensUnits
    <3>3. Text_(d, 3) = <<48 + ((d \div 100) % 10), 48 + ((d \div 10) % 10), 48 + (d % 10)>>
      BY <3>1, ThreeFigures, Zenon
    <3> QED
      BY <3>1, <3>2, <3>3, Zenon
  <2>2. Longitude(d, m, p) = <<48 + a, 48 + b, 48 + c>> \o <<48 + m1, 48 + m2>> \o <<Dot>>
                               \o <<48 + p1, 48 + p2, 48 + p3, 48 + p4, 48 + p5, 48 + p6>>
    BY <1>1, <1>2, <2>1, Zenon DEF Longitude
  <2>3. PICK s : s = Longitude(d, m, p)
    OBVIOUS
  <2>4. s \in Seq(Nat) /\ Len(s) = 12 /\ s[1] = 48 + a /\ s[2] = 48 + b /\ s[3] = 48 + c
        /\ s[4] = 48 + m1 /\ s[5] = 48 + m2 /\ s[6] = Dot /\ s[7] = 48 + p1 /\ s[8] = 48 + p2
        /\ s[9] = 48 + p3 /\ s[10] = 48 + p4 /\ s[11] = 48 + p5 /\ s[12] = 48 + p6
    BY <2>2, <2>3 DEF Dot
  <2>5. TextLongitude(s, a, b, c, g)
    BY <1>4, <2>4 DEF TextLongitude
  <2>6. Str2Hex(s) = Packed(a * 100 + b * 10 + c, g)
    <3>1. Eight(g) /\ a \in 0..9 /\ b \in 0..9 /\ c \in 0..9
      BY <1>4
    <3> QED
      BY ONLY <2>5, <3>1, LongitudePacked
  <2> QED
    BY <2>1, <2>3, <2>6
<1>7. MinuteFigures(m, p) = <<g[1], g[2], g[3], g[4], g[5], g[6], g[7], g[8]>>
  BY <1>3, <1>4
<1>8. minutes(Str2Hex(Latitude(d % 90, m, p))) = MinuteFigures(m, p)
  BY <1>4, <1>5, <1>7, MinutesRead
<1>9. minutes(Str2Hex(Longitude(d, m, p))) = MinuteFigures(m, p)
  BY <1>4, <1>6, <1>7, MinutesRead
<1>10. ASSUME NEW v \in 0..180, NEW t, t = Packed(v, g)
       PROVE  t \in Seq(Nat) /\ Len(t) = 5 /\ t[1] = v
  BY <1>4, <1>10 DEF Packed, Eight
<1>11. d % 90 \in 0..180
  OBVIOUS
<1> QED
  BY <1>5, <1>6, <1>8, <1>9, <1>10, <1>11, Zenon DEF ReadBack

\* A number of four figures.
UpTo9999 == {n \in Nat : n <= 9999}
HasFigures(v, a, b, c, e) ==
  /\ v \in Nat /\ a \in 0..9 /\ b \in 0..9 /\ c \in 0..9 /\ e \in 0..9
  /\ v = 1000 * a + 100 * b + 10 * c + e

LEMMA FourDigits ==
  ASSUME NEW v \in UpTo9999
  PROVE  \E a, b, c, e :
           HasFigures(v, a, b, c, e) /\ Figures(v, 4) = <<a, b, c, e>>
<1>1. PICK q \in Nat, e \in 0..9 : v = 10 * q + e /\ q <= 999
  <2>1. v \div 10 \in Nat /\ v % 10 \in 0..9 /\ v = 10 * (v \div 10) + (v % 10) /\ v \div 10 <= 999
    BY DEF UpTo9999
  <2> QED
    BY <2>1
<1>2. PICK r \in 0..99, c \in 0..9 : q = 10 * r + c
  <2>1. q \div 10 \in 0..99 /\ q % 10 \in 0..9 /\ q = 10 * (q \div 10) + (q % 10)
    BY <1>1
  <2> QED
    BY <2>1
<1>3. PICK a \in 0..9, b \in 0..9 : r = 10 * a + b
  <2>1. r \div 10 \in 0..9 /\ r % 10 \in 0..9 /\ r = 10 * (r \div 10) + (r % 10)
    OBVIOUS
  <2> QED
    BY <2>1
<1>4. HasFigures(v, a, b, c, e)
  <2>1. v = 1000 * a + 100 * b + 10 * c + e
    BY <1>1, <1>2, <1>3
  <2> QED
    BY <1>1, <1>2, <1>3, <2>1 DEF HasFigures, UpTo9999
<1>5. (v \div 1000) % 10 = a
  <2>1. v \div 1000 = a
    BY <1>4 DEF HasFigures
  <2> QED
    BY <2>1
<1>6. (v \div 100) % 10 = b
  <2>1. v \div 100 = r
    BY <1>1, <1>2
  <2> QED
    BY <1>3, <2>1
<1>7. (v \div 10) % 10 = c
  <2>1. v \div 10 = q
    BY <1>1
  <2> QED
    BY <1>2, <2>1
<1>8. v % 10 = e
  BY <1>1
<1>9. Figures(v, 4) = <<a, b, c, e>>
  BY <1>5, <1>6, <1>7, <1>8, Powers DEF Figures, UpTo9999
<1> QED
  BY <1>4, <1>9, Zenon

\* The text of a number of tenths: its figures but the leading zeros.
FiguresAndDot(a, b, c, e) ==
  IF a = 0 /\ b = 0 THEN <<48 + c>> \o <<Dot>> \o <<48 + e>>
  ELSE IF a = 0 THEN <<48 + b, 48 + c>> \o <<Dot>> \o <<48 + e>>
  ELSE <<48 + a, 48 + b, 48 + c>> \o <<Dot>> \o <<48 + e>>

LEMMA TenthsText ==
  ASSUME NEW v, NEW a, NEW b, NEW c, NEW e, HasFigures(v, a, b, c, e)
  PROVE  Tenths(v) = FiguresAndDot(a, b, c, e)
<1>a. v \in Nat /\ a \in 0..9 /\ b \in 0..9 /\ c \in 0..9 /\ e \in 0..9
  BY DEF HasFigures
<1>1. v \div 10 = 100 * a + 10 * b + c /\ v % 10 = e
  BY DEF HasFigures
<1>2. (v < 100 <=> a = 0 /\ b = 0) /\ (v < 1000 <=> a = 0)
  BY DEF HasFigures
<1>3. PICK q \in Nat : q = v \div 10
  BY <1>a, <1>1
<1>4. Text_(v % 10, 1) = <<48 + e>>
  BY <1>a, <1>1, OneFigure
<1>5. CASE a = 0 /\ b = 0
  <2>1. Text_(q, 1) = <<48 + c>>
    BY <1>a, <1>1, <1>3, <1>5, OneFigure
  <2>2. Tenths(v) = Text_(q, 1) \o <<Dot>> \o Text_(v % 10, 1)
    BY <1>a, <1>2, <1>3, <1>5 DEF Tenths
  <2> QED
    BY <1>4, <1>5, <2>1, <2>2, Zenon DEF FiguresAndDot
<1>6. CASE a = 0 /\ b # 0
  <2>1. (q \div 10) % 10 = b /\ q % 10 = c
    BY <1>a, <1>1, <1>3, <1>6
  <2>2. Text_(q, 2) = <<48 + b, 48 + c>>
    BY <1>a, <2>1, TwoFigures
  <2>3. Tenths(v) = Text_(q, 2) \o <<Dot>> \o Text_(v % 10, 1)
    BY <1>a, <1>2, <1>3, <1>6, SMTT(30) DEF Tenths
  <2> QED
    BY <1>4, <1>6, <2>2, <2>3, Zenon DEF FiguresAndDot
<1>7. CASE a # 0
  <2>1. (q \div 100) % 10 = a /\ (q \div 10) % 10 = b /\ q % 10 = c
    BY <1>a, <1>1, <1>3
  <2>2. Text_(q, 3) = <<48 + a, 48 + b, 48 + c>>
    BY <1>a, <2>1, ThreeFigures
  <2>3. Tenths(v) = Text_(q, 3) \o <<Dot>> \o Text_(v % 10, 1)
    BY <1>a, <1>2, <1>3, <1>7 DEF Tenths
  <2> QED
    BY <1>4, <1>7, <2>2, <2>3, Zenon DEF FiguresAndDot
<1> QED
  BY <1>5, <1>6, <1>7

\* In half bytes the figures are all there again.
LEMMA MotionPacked ==
  ASSUME NEW v, NEW a, NEW b, NEW c, NEW e, HasFigures(v, a, b, c, e)
  PROVE  /\ GetSpeed(Tenths(v)) = <<a * 16 + b, c * 16 + e>>
         /\ GetDirc(Tenths(v)) = <<a * 16 + b, c * 16>>
<1>a. v \in Nat /\ a \in 0..9 /\ b \in 0..9 /\ c \in 0..9 /\ e \in 0..9
  BY DEF HasFigures
<1>0. Tenths(v) = FiguresAndDot(a, b, c, e)
  BY TenthsText
<1>1. PICK s : s = Tenths(v)
  OBVIOUS
<1>2. CASE a = 0 /\ b = 0
  <2>0. s = <<48 + c>> \o <<Dot>> \o <<48 + e>>
    BY <1>a, <1>0, <1>1, <1>2 DEF FiguresAndDot
  <2>1. Len(s) = 3 /\ s[1] = 48 + c /\ s[2] = Dot /\ s[3] = 48 + e
    BY <1>a, <2>0 DEF Dot
  <2>2. ocHex(s, 0) = c /\ ocHex(s, 2) = e
    BY <1>a, <2>1 DEF ocHex
  <2>3. \A j \in 1..3 : s[j] = Dot <=> j = 2
    BY <1>a, <2>1 DEF Dot
  <2>4. dotAt(s, 4) = 1 /\ dotAt(s, 3) = 1
    <3>1. {k \in 0..4-1 : k < Len(s) /\ s[k + 1] = Dot} = {1}
      BY <2>1, <2>3
    <3>2. {k \in 0..3-1 : k < Len(s) /\ s[k + 1] = Dot} = {1}
      BY <2>1, <2>3
    <3> QED
      BY <3>1, <3>2, OneDot
  <2>5. dotAt(s, 4) # 0 /\ dotAt(s, 4) # 2 /\ dotAt(s, 4) # 3 /\ dotAt(s, 3) # 2 /\ dotAt(s, 3) # 3
    BY <2>4
  <2>6. GetSpeed(s) = <<0, ocHex(s, 0) * 16 + ocHex(s, 2)>>
    BY <2>4, <2>5, Zenon DEF GetSpeed
  <2>7. GetDirc(s) = <<0, ocHex(s, 0) * 16>>
    BY <2>4, <2>5, Zenon DEF GetDirc
  <2> QED
    BY <1>a, <1>1, <1>2, <2>2, <2>6, <2>7
<1>3. CASE a = 0 /\ b # 0
  <2>0. s = <<48 + b, 48 + c>> \o <<Dot>> \o <<48 + e>>
    BY <1>a, <1>0, <1>1, <1>3 DEF FiguresAndDot
  <2>1. Len(s) = 4 /\ s[1] = 48 + b /\ s[2] = 48 + c /\ s[3] = Dot /\ s[4] = 48 + e
    BY <1>a, <2>0 DEF Dot
  <2>2. ocHex(s, 0) = b /\ ocHex(s, 1) = c /\ ocHex(s, 3) = e
    BY <1>a, <2>1 DEF ocHex
  <2>3. \A j \in 1..4 : s[j] = Dot <=> j = 3
    BY <1>a, <2>1 DEF Dot
  <2>4. dotAt(s, 4) = 2 /\ dotAt(s, 3) = 2
    <3>1. {k \in 0..4-1 : k < Len(s) /\ s[k + 1] = Dot} = {2}
      BY <2>1, <2>3
    <3>2. {k \in 0..3-1 : k < Len(s) /\ s[k + 1] = Dot} = {2}
      BY <2>1, <2>3
    <3> QED
      BY <3>1, <3>2, OneDot
  <2>5. dotAt(s, 4) # 0 /\ dotAt(s, 4) # 1 /\ dotAt(s, 4) # 3 /\ dotAt(s, 3) # 1 /\ dotAt(s, 3) # 3
    BY <2>4
  <2>6. GetSpeed(s) = <<ocHex(s, 0), ocHex(s, 1) * 16 + ocHex(s, 3)>>
    BY <2>4, <2>5, Zenon DEF GetSpeed
  <2>7. GetDirc(s) = <<ocHex(s, 0), ocHex(s, 1) * 16>>
    BY <2>4, <2>5, Zenon DEF GetDirc
  <2> QED
    BY <1>a, <1>1, <1>3, <2>2, <2>6, <2>7
<1>4. CASE a # 0
  <2>0. s = <<48 + a, 48 + b, 48 + c>> \o <<Dot>> \o <<48 + e>>
    BY <1>a, <1>0, <1>1, <1>4 DEF FiguresAndDot
  <2>1. Len(s) = 5 /\ s[1] = 48 + a /\ s[2] = 48 + b /\ s[3] = 48 + c /\ s[4] = Dot /\ s[5] = 48 + e
    BY <1>a, <2>0 DEF Dot
  <2>2. ocHex(s, 0) = a /\ ocHex(s, 1) = b /\ ocHex(s, 2) = c /\ ocHex(s, 4) = e
    BY <1>a, <2>1 DEF ocHex
  <2>3. \A j \in 1..5 : s[j] = Dot <=> j = 4
    BY <1>a, <2>1 DEF Dot
  <2>4. dotAt(s, 4) = 3 /\ dotAt(s, 3) = 3
    <3>1. {k \in 0..4-1 : k < Len(s) /\ s[k + 1] = Dot} = {3}
      BY <2>1, <2>3
    <3>2. {k \in 0..3-1 : k < Len(s) /\ s[k + 1] = Dot} = {}
      BY <2>1, <2>3
    <3> QED
      BY <3>1, <3>2, OneDot, NoDot
  <2>5. dotAt(s, 4) # 0 /\ dotAt(s, 4) # 1 /\ dotAt(s, 4) # 2 /\ dotAt(s, 3) # 1 /\ dotAt(s, 3) # 2
    BY <2>4
  <2>6. GetSpeed(s) = <<ocHex(s, 0) * 16 + ocHex(s, 1), ocHex(s, 2) * 16 + ocHex(s, 4)>>
    BY <2>4, <2>5, Zenon DEF GetSpeed
  <2>7. GetDirc(s) = <<ocHex(s, 0) * 16 + ocHex(s, 1), ocHex(s, 2) * 16>>
    BY <2>4, <2>5, Zenon DEF GetDirc
  <2> QED
    BY <1>a, <1>1, <2>2, <2>6, <2>7
<1> QED
  BY <1>2, <1>3, <1>4

\* A sequence is made of two.
Joins(q, s, u) ==
  /\ q \in Seq(Nat) /\ Len(q) = Len(s) + Len(u)
  /\ \A k \in 1..Len(s) : q[k] = s[k]
  /\ \A k \in 1..Len(u) : q[Len(s) + k] = u[k]

LEMMA Appended ==
  ASSUME NEW s \in Seq(Nat), NEW u \in Seq(Nat)
  PROVE  Joins(s \o u, s, u)
<1>0. PICK q : q = s \o u
  OBVIOUS
<1>1. /\ q \in Seq(Nat) /\ Len(q) = Len(s) + Len(u)
      /\ \A k \in 1..Len(s) + Len(u) : q[k] = IF k <= Len(s) THEN s[k] ELSE u[k - Len(s)]
  BY <1>0, ConcatProperties
<1>2. Len(s) \in Nat /\ Len(u) \in Nat
  OBVIOUS
<1>3. ASSUME NEW k \in 1..Len(u)
      PROVE  q[Len(s) + k] = u[k]
  <2>1. PICK i : i = Len(s) + k
    OBVIOUS
  <2>2. i \in 1..Len(s) + Len(u) /\ ~(i <= Len(s)) /\ i - Len(s) = k
    BY <1>2, <2>1
  <2>3. q[i] = IF i <= Len(s) THEN s[i] ELSE u[i - Len(s)]
    BY <1>1, <2>2
  <2> QED
    BY <2>1, <2>2, <2>3, Zenon
<1> QED
  BY <1>0, <1>1, <1>2, <1>3 DEF Joins

\* The places of a packet.
Made(pack, lat, lon, speed, dir) ==
  pack = <<\hFE, 24, 2>> \o lat \o lon \o <<0, 0, 0, 0, 0, 0>> \o speed \o dir \o <<\hFF>>

Holds(pack, lat, lon, speed, dir) ==
  /\ SubSeq(pack, 4, 8) = lat /\ SubSeq(pack, 9, 13) = lon
  /\ pack[4] = lat[1] /\ pack[9] = lon[1]
  /\ pack[20] = speed[1] /\ pack[21] = speed[2]
  /\ pack[22] = dir[1] /\ pack[23] = dir[2]

LEMMA PacketPlaces ==
  ASSUME NEW lat \in Seq(Nat), NEW lon \in Seq(Nat), NEW speed \in Seq(Nat), NEW dir \in Seq(Nat),
         Len(lat) = 5, Len(lon) = 5, Len(speed) = 2, Len(dir) = 2,
         NEW pack, Made(pack, lat, lon, speed, dir)
  PROVE  Holds(pack, lat, lon, speed, dir)
<1>a. PICK head : head = <<\hFE, 24, 2>>
  OBVIOUS
<1>b. PICK zeros : zeros = <<0, 0, 0, 0, 0, 0>>
  OBVIOUS
<1>c. head \in Seq(Nat) /\ Len(head) = 3 /\ zeros \in Seq(Nat) /\ Len(zeros) = 6
  BY <1>a, <1>b
<1>d. PICK q1 : q1 = head \o lat
  OBVIOUS
<1>e. PICK q2 : q2 = q1 \o lon
  OBVIOUS
<1>f. PICK q3 : q3 = q2 \o zeros
  OBVIOUS
<1>g. PICK q4 : q4 = q3 \o speed
  OBVIOUS
<1>h. PICK q5 : q5 = q4 \o dir
  OBVIOUS
<1>i. PICK end : end = <<\hFF>>
  OBVIOUS
<1>j. pack = q5 \o end
  BY <1>a, <1>b, <1>d, <1>e, <1>f, <1>g, <1>h, <1>i, Zenon DEF Made
<1>k. end \in Seq(Nat) /\ Len(end) = 1
  BY <1>i
<1>l. q1 \in Seq(Nat) /\ Len(q1) = 8 /\ \A k \in 1..5 : q1[3 + k] = lat[k]
  <2>1. Joins(q1, head, lat)
    BY <1>d, <1>c, Appended
  <2> QED
    BY <1>c, <2>1 DEF Joins
<1>m. q2 \in Seq(Nat) /\ Len(q2) = 13 /\ \A k \in 1..5 : q2[3 + k] = lat[k] /\ q2[8 + k] = lon[k]
  <2>1. Joins(q2, q1, lon)
    BY <1>e, <1>l, Appended
  <2> QED
    BY <1>l, <2>1 DEF Joins
<1>n. q3 \in Seq(Nat) /\ Len(q3) = 19 /\ \A k \in 1..5 : q3[3 + k] = lat[k] /\ q3[8 + k] = lon[k]
  <2>1. Joins(q3, q2, zeros)
    BY <1>f, <1>c, <1>m, Appended
  <2> QED
    BY <1>c, <1>m, <2>1 DEF Joins
<1>o. /\ q4 \in Seq(Nat) /\ Len(q4) = 21 /\ \A k \in 1..5 : q4[3 + k] = lat[k] /\ q4[8 + k] = lon[k]
      /\ q4[20] = speed[1] /\ q4[21] = speed[2]
  <2>1. Joins(q4, q3, speed)
    BY <1>g, <1>n, Appended
  <2> QED
    BY <1>n, <2>1 DEF Joins
<1>p. /\ q5 \in Seq(Nat) /\ Len(q5) = 23 /\ \A k \in 1..5 : q5[3 + k] = lat[k] /\ q5[8 + k] = lon[k]
      /\ q5[20] = speed[1] /\ q5[21] = speed[2] /\ q5[22] = dir[1] /\ q5[23] = dir[2]
  <2>1. Joins(q5, q4, dir)
    BY <1>h, <1>o, Appended
  <2> QED
    BY <1>o, <2>1 DEF Joins
<1>q. /\ pack \in Seq(Nat) /\ Len(pack) = Len(q5) + Len(end)
      /\ \A k \in 1..Len(q5) : pack[k] = q5[k]
  <2>1. Joins(pack, q5, end)
    BY <1>j, <1>k, <1>p, Appended
  <2> QED
    BY <2>1 DEF Joins
<1>1. pack \in Seq(Nat) /\ Len(pack) = 24
  BY <1>k, <1>p, <1>q
<1>2. \A k \in 1..5 : pack[3 + k] = lat[k] /\ pack[8 + k] = lon[k]
  <2>1. \A k \in 1..5 : 3 + k \in 1..Len(q5) /\ 8 + k \in 1..Len(q5)
    BY <1>p
  <2>2. \A k \in 1..5 : pack[3 + k] = q5[3 + k] /\ pack[8 + k] = q5[8 + k]
    BY <1>q, <2>1
  <2> QED
    BY <1>p, <2>2
<1>3. pack[20] = speed[1] /\ pack[21] = speed[2] /\ pack[22] = dir[1] /\ pack[23] = dir[2]
  BY <1>k, <1>p, <1>q
<1>4. SubSeq(pack, 4, 8) = lat
  <2>0. ASSUME NEW k \in 4..8
        PROVE  pack[k] \in Nat
    <3>1. k \in 1..Len(pack)
      BY <1>1
    <3> QED
      BY <1>1, <3>1, ElementOfSeq, Zenon
  <2>1. SubSeq(pack, 4, 8) \in Seq(Nat) /\ Len(SubSeq(pack, 4, 8)) = 5
    BY <2>0, SubSeqProperties
  <2>2. \A k \in 1..5 : SubSeq(pack, 4, 8)[k] = lat[k]
    BY <1>1, <1>2
  <2> QED
    BY <2>1, <2>2, SeqEqual
<1>5. SubSeq(pack, 9, 13) = lon
  <2>0. ASSUME NEW k \in 9..13
        PROVE  pack[k] \in Nat
    <3>1. k \in 1..Len(pack)
      BY <1>1
    <3> QED
      BY <1>1, <3>1, ElementOfSeq, Zenon
  <2>1. SubSeq(pack, 9, 13) \in Seq(Nat) /\ Len(SubSeq(pack, 9, 13)) = 5
    BY <2>0, SubSeqProperties
  <2>2. \A k \in 1..5 : SubSeq(pack, 9, 13)[k] = lon[k]
    BY <1>1, <1>2
  <2> QED
    BY <2>1, <2>2, SeqEqual
<1>6. pack[4] = lat[1] /\ pack[9] = lon[1]
  BY <1>2
<1> QED
  BY <1>3, <1>4, <1>5, <1>6, Zenon DEF Holds

\* What a receiver can say.
FixOK(f) ==
  /\ f.d \in 0..180 /\ f.m \in 0..99 /\ f.p \in Nat
  /\ f.v \in UpTo9999 /\ f.c \in UpTo9999

\* A fix that went through the box and the server.
LEMMA FixRead ==
  ASSUME NEW f, FixOK(f)
  PROVE  /\ GisInfo(Packet(f)).lat = <<f.d % 90>> \o MinuteFigures(f.m, f.p)
         /\ GisInfo(Packet(f)).lon = <<f.d>> \o MinuteFigures(f.m, f.p)
         /\ GisInfo(Packet(f)).speed = Figures(f.v, 4)
         /\ GisInfo(Packet(f)).dir = f.c \div 10
<1> DEFINE lat == Str2Hex(Latitude(f.d % 90, f.m, f.p))
           lon == Str2Hex(Longitude(f.d, f.m, f.p))
           speed == GetSpeed(Tenths(f.v))
           dir == GetDirc(Tenths(f.c))
           pack == Packet(f)
<1>1. /\ lat \in Seq(Nat) /\ Len(lat) = 5 /\ lat[1] = f.d % 90
      /\ lon \in Seq(Nat) /\ Len(lon) = 5 /\ lon[1] = f.d
      /\ minutes(lat) = MinuteFigures(f.m, f.p) /\ minutes(lon) = MinuteFigures(f.m, f.p)
  <2>1. f.d \in 0..180 /\ f.m \in 0..99 /\ f.p \in Nat
    BY DEF FixOK
  <2>2. ReadBack(f.d, f.m, f.p)
    BY <2>1, PositionRead
  <2> QED
    BY <2>2, Zenon DEF ReadBack
<1>2. PICK a, b, c, e : HasFigures(f.v, a, b, c, e) /\ Figures(f.v, 4) = <<a, b, c, e>>
  <2>1. f.v \in UpTo9999
    BY DEF FixOK
  <2> QED
    BY <2>1, FourDigits
<1>3. PICK i, j, k, l : HasFigures(f.c, i, j, k, l)
  <2>1. f.c \in UpTo9999
    BY DEF FixOK
  <2> QED
    BY <2>1, FourDigits
<1>4. speed = <<a * 16 + b, c * 16 + e>>
  BY <1>2, MotionPacked
<1>5. dir = <<i * 16 + j, k * 16>>
  BY <1>3, MotionPacked
<1>6. Made(pack, lat, lon, speed, dir)
  BY Zenon DEF Packet, Made
<1> HIDE DEF lat, lon, speed, dir, pack
<1>7. a \in 0..9 /\ b \in 0..9 /\ c \in 0..9 /\ e \in 0..9
  BY <1>2 DEF HasFigures
<1>8. i \in 0..9 /\ j \in 0..9 /\ k \in 0..9 /\ l \in 0..9
  BY <1>3 DEF HasFigures
<1>9. speed \in Seq(Nat) /\ Len(speed) = 2 /\ speed[1] = a * 16 + b /\ speed[2] = c * 16 + e
  BY <1>4, <1>7
<1>10. dir \in Seq(Nat) /\ Len(dir) = 2 /\ dir[1] = i * 16 + j /\ dir[2] = k * 16
  BY <1>5, <1>8
<1>11. /\ SubSeq(pack, 4, 8) = lat /\ SubSeq(pack, 9, 13) = lon
       /\ pack[4] = lat[1] /\ pack[9] = lon[1]
       /\ pack[20] = speed[1] /\ pack[21] = speed[2]
       /\ pack[22] = dir[1] /\ pack[23] = dir[2]
  <2>1. lat \in Seq(Nat) /\ lon \in Seq(Nat) /\ speed \in Seq(Nat) /\ dir \in Seq(Nat)
    BY <1>1, <1>9, <1>10
  <2>2. Len(lat) = 5 /\ Len(lon) = 5 /\ Len(speed) = 2 /\ Len(dir) = 2
    BY <1>1, <1>9, <1>10
  <2>3. Holds(pack, lat, lon, speed, dir)
    BY <1>6, <2>1, <2>2, PacketPlaces
  <2> QED
    BY <2>3, Zenon DEF Holds
<1>12. GisInfo(pack).lat = <<f.d % 90>> \o MinuteFigures(f.m, f.p)
  BY <1>1, <1>11, Zenon DEF GisInfo
<1>13. GisInfo(pack).lon = <<f.d>> \o MinuteFigures(f.m, f.p)
  BY <1>1, <1>11, Zenon DEF GisInfo
<1>14. GisInfo(pack).speed = Figures(f.v, 4)
  <2>1. \A h, g \in 0..9 : (h * 16 + g) \div 16 = h /\ (h * 16 + g) % 16 = g
    OBVIOUS
  <2>2. speed[1] \div 16 = a /\ speed[1] % 16 = b /\ speed[2] \div 16 = c /\ speed[2] % 16 = e
    BY <1>7, <1>9, <2>1, SMTT(30)
  <2>3. GisInfo(pack).speed = <<speed[1] \div 16, speed[1] % 16, speed[2] \div 16, speed[2] % 16>>
    BY <1>11, Zenon DEF GisInfo
  <2> QED
    BY <1>2, <2>2, <2>3, Zenon
<1>15. GisInfo(pack).dir = f.c \div 10
  <2>1. dir[1] \div 16 = i /\ dir[1] % 16 = j /\ dir[2] \div 16 = k
    BY <1>8, <1>10
  <2>2. GisInfo(pack).dir = (dir[1] \div 16) * 100 + (dir[1] % 16) * 10 + dir[2] \div 16
    BY <1>11, Zenon DEF GisInfo
  <2>3. f.c \div 10 = i * 100 + j * 10 + k
    BY <1>3 DEF HasFigures
  <2> QED
    BY <2>1, <2>2, <2>3
<1> QED
  BY <1>12, <1>13, <1>14, <1>15, Zenon DEF pack

\* The row is what the server makes of the packet of the fix.
TrackInv == FixOK(fix) /\ track = GisInfo(Packet(fix))

LEMMA FixesKept == TrackInv => PositionKept /\ MotionKept
BY FixRead, Zenon DEF TrackInv, PositionKept, MotionKept, MinuteFigures

\* Of every position and every motion a receiver reports, whatever its number of
\* figures, the row holds each figure: packing into half bytes (public.c) and unpacking
\* (robot.c of the GIS server) are inverse to each other.
THEOREM FixIsKept ==
  ASSUME Degrees \subseteq 0..180, Minutes \subseteq 0..99, Parts \subseteq Nat,
         Knots \subseteq UpTo9999, Courses \subseteq UpTo9999
  PROVE  TrackSpec => [](PositionKept /\ MotionKept)
<1>1. FixOK(NoFix)
  BY DEF FixOK, NoFix, UpTo9999
<1>2. TrackInit => TrackInv
  BY <1>1, Zenon DEF TrackInit, TrackInv
<1>3. TrackInv /\ [TrackNext]_trackVars => TrackInv'
  <2> SUFFICES ASSUME TrackInv, [TrackNext]_trackVars
               PROVE  TrackInv'
    OBVIOUS
  <2>1. CASE Reported
    <3>1. PICK d \in Degrees, m \in Minutes, p \in Parts, v \in Knots, c \in Courses :
            /\ fix' = [d |-> d, m |-> m, p |-> p, v |-> v, c |-> c]
            /\ track' = GisInfo(Packet(fix'))
      BY <2>1, Zenon DEF Reported
    <3>2. FixOK(fix')
      BY <3>1 DEF FixOK, UpTo9999
    <3> QED
      BY <3>1, <3>2, Zenon DEF TrackInv
  <2>2. CASE Rest
    BY <1>1, <2>2, Zenon DEF Rest, TrackInv
  <2>3. CASE UNCHANGED trackVars
    BY <2>3, Zenon DEF trackVars, TrackInv
  <2> QED
    BY <2>1, <2>2, <2>3, Zenon DEF TrackNext
<1> QED
  BY <1>2, <1>3, FixesKept, PTL DEF TrackSpec

-----------------------------------------------------------------------------
(* Display                                                                 *)

LEMMA Sizes ==
  /\ XSize(40, 111) = 9 /\ XSize(64, 87) = 3 /\ XSize(0, 249) = 0
  /\ XSize(64, 111) = 6 /\ XSize(0, 39) = 5 /\ XSize(88, 111) = 3
BY DEF XSize

\* What stands in a place of the panel after a window was painted.
LEMMA PaintedCell ==
  ASSUME NEW p, NEW xStart, NEW xEnd, NEW yStart, NEW yEnd, NEW name,
         NEW w, w = XSize(xStart, xEnd), NEW first, first = xStart \div 8,
         NEW y \in Rows, NEW x \in Columns
  PROVE  EPD_Dis_Part(p, xStart, xEnd, yStart, yEnd, name)[y][x] =
           IF y \in yStart..yEnd /\ x \in first..first + w - 1
             THEN picture(name, (yEnd - y) * w + x - first)
             ELSE p[y][x]
BY Zenon DEF EPD_Dis_Part

LEMMA Firsts == 40 \div 8 = 5 /\ 64 \div 8 = 8 /\ 0 \div 8 = 0 /\ 88 \div 8 = 11
OBVIOUS

\* The picture in the place of the tens.
Tens(integ) == IF (integ \div 10) % 10 = 0 THEN gWhite ELSE (integ \div 10) % 10

\* After display each place is as the last window that covers it.
CellIs(q, p, integ, dec, y, x) ==
  q[y][x] = IF y \in 45..100 /\ x \in 5..13 THEN picture(dec % 10, (100 - y) * 9 + x - 5)
            ELSE IF y \in 119..174 /\ x \in 5..13 THEN picture(integ % 10, (174 - y) * 9 + x - 5)
            ELSE IF y \in 226..249 /\ x \in 8..10 THEN White
            ELSE IF y \in 170..225 /\ x \in 5..13 THEN picture(Tens(integ), (225 - y) * 9 + x - 5)
            ELSE p[y][x]

LEMMA DisplayCell ==
  ASSUME NEW p, NEW integ \in 0..127, NEW dec, NEW y \in Rows, NEW x \in Columns
  PROVE  CellIs(display(p, integ, dec), p, integ, dec, y, x)
<1>1. abs(integ) = integ /\ ~(integ < 0) /\ integ >= 0
  BY DEF abs
<1>2. PICK a : a = EPD_Dis_Part(p, 40, 111, 170, 225, Tens(integ))
  OBVIOUS
<1>3. PICK b : b = EPD_Dis_Part(a, 64, 87, 226, 249, gWhite)
  OBVIOUS
<1>4. PICK c : c = EPD_Dis_Part(b, 40, 111, 119, 174, integ % 10)
  OBVIOUS
<1>5. display(p, integ, dec) = EPD_Dis_Part(c, 40, 111, 45, 100, dec % 10)
  <2>1. CASE (integ \div 10) % 10 = 0
    <3>1. b = NoTens(p, integ)
      BY <1>1, <1>2, <1>3, <2>1, Zenon DEF NoTens, Tens
    <3> QED
      BY <1>1, <1>4, <2>1, <3>1, Zenon DEF display
  <2>2. CASE (integ \div 10) % 10 # 0
    <3>1. b = WithTens(p, integ, (integ \div 10) % 10)
      BY <1>1, <1>2, <1>3, <2>2, Zenon DEF WithTens, Tens
    <3> QED
      BY <1>1, <1>4, <2>2, <3>1, Zenon DEF display
  <2> QED
    BY <2>1, <2>2
<1>6. a[y][x] = IF y \in 170..225 /\ x \in 5..13 THEN picture(Tens(integ), (225 - y) * 9 + x - 5)
                ELSE p[y][x]
  BY <1>2, Sizes, Firsts, PaintedCell
<1>7. b[y][x] = IF y \in 226..249 /\ x \in 8..10 THEN White ELSE a[y][x]
  <2>1. picture(gWhite, (249 - y) * 3 + x - 8) = White
    BY Zenon DEF picture
  <2> QED
    BY <1>3, <2>1, Sizes, Firsts, PaintedCell
<1>8. c[y][x] = IF y \in 119..174 /\ x \in 5..13 THEN picture(integ % 10, (174 - y) * 9 + x - 5)
                ELSE b[y][x]
  BY <1>4, Sizes, Firsts, PaintedCell
<1>9. display(p, integ, dec)[y][x] =
        IF y \in 45..100 /\ x \in 5..13 THEN picture(dec % 10, (100 - y) * 9 + x - 5) ELSE c[y][x]
  BY <1>5, Sizes, Firsts, PaintedCell
<1> QED
  BY <1>6, <1>7, <1>8, <1>9 DEF CellIs

\* A picture stands in a window of the panel.
Stands(p, name, x, w, yStart, yEnd) ==
  \A r \in yStart..yEnd, c \in x..x + w - 1 : p[r][c] = picture(name, (yEnd - r) * w + c - x)

\* A window of n bytes, w of them in a row.
Frames(x, w, yStart, yEnd, n) ==
  /\ x \in Nat /\ w \in {3, 5, 6, 9} /\ yStart \in Nat /\ yEnd \in Nat
  /\ n - 1 = ((yEnd - yStart + 1) * w) - 1

\* The k-th byte of a picture stands in its place.
ShowsByte(name, x, w, yEnd, k) == panel[yEnd - (k \div w)][x + (k % w)] = picture(name, k)

LEMMA WindowShows ==
  ASSUME NEW name, NEW x, NEW w, NEW yStart, NEW yEnd, NEW n, Frames(x, w, yStart, yEnd, n),
         Stands(panel, name, x, w, yStart, yEnd), NEW k \in 0..n - 1
  PROVE  ShowsByte(name, x, w, yEnd, k)
<1>0. /\ x \in Nat /\ w \in {3, 5, 6, 9} /\ yStart \in Nat /\ yEnd \in Nat
      /\ k \in 0..((yEnd - yStart + 1) * w) - 1
  BY DEF Frames
<1>1. PICK q, m : q = k \div w /\ m = k % w
  OBVIOUS
<1>2. q \in Nat /\ m \in 0..w - 1 /\ k = q * w + m /\ q <= yEnd - yStart
  <2>1. CASE w = 3
    BY <1>0, <1>1, <2>1
  <2>2. CASE w = 5
    BY <1>0, <1>1, <2>2
  <2>3. CASE w = 6
    BY <1>0, <1>1, <2>3
  <2>4. CASE w = 9
    BY <1>0, <1>1, <2>4
  <2> QED
    BY <1>0, <2>1, <2>2, <2>3, <2>4
<1>3. PICK r, c : r = yEnd - q /\ c = x + m
  OBVIOUS
<1>4. r \in yStart..yEnd /\ c \in x..x + w - 1
  BY <1>0, <1>2, <1>3
<1>5. (yEnd - r) * w + c - x = k
  <2>1. yEnd - r = q /\ c - x = m
    BY <1>0, <1>2, <1>3
  <2>2. (yEnd - r) * w + c - x = q * w + m
    <3>1. (yEnd - r) * w = q * w
      BY <2>1
    <3>2. q * w \in Int /\ c \in Int /\ x \in Int
      BY <1>0, <1>2, <1>3
    <3> QED
      BY <2>1, <3>1, <3>2
  <2> QED
    BY <1>2, <2>2
<1>6. panel[r][c] = picture(name, (yEnd - r) * w + c - x)
  BY <1>4, Zenon DEF Stands
<1> QED
  BY <1>1, <1>3, <1>5, <1>6, Zenon DEF ShowsByte

\* The picture of a digit, and white, byte by byte.
LEMMA Pictures ==
  ASSUME NEW name, NEW k
  PROVE  (name # gWhite => picture(name, k) = <<name, k>>) /\ picture(gWhite, k) = White
BY Zenon DEF picture

\* The value stands in its windows, whole but for the rows that two of them share.
ValueStands(p, integ, dec) ==
  /\ Stands(p, integ % 10, 5, 9, 119, 174)
  /\ Stands(p, dec % 10, 5, 9, 45, 100)
  /\ \A r \in 175..225, c \in 5..13 : p[r][c] = picture(Tens(integ), (225 - r) * 9 + c - 5)
  /\ Stands(p, gWhite, 8, 3, 226, 249)

\* The frame stands in its own.
FrameStands(p) ==
  /\ Stands(p, gT48, 8, 6, 0, 39)
  /\ Stands(p, gDC6, 0, 5, 0, 82)
  /\ Stands(p, gSignal, 0, 5, 190, 249)

\* Every cell of the panel, by the numbers of its row and its column.
LEMMA CellShows ==
  ASSUME NEW p, NEW integ \in 0..127, NEW dec, NEW y \in 0..249, NEW x \in 0..15
  PROVE  CellIs(display(p, integ, dec), p, integ, dec, y, x)
<1>1. y \in Rows /\ x \in Columns
  BY DEF Rows, Columns, yDot, xDot
<1> QED
  BY <1>1, DisplayCell

LEMMA DisplayShows ==
  ASSUME NEW p, NEW integ \in 0..127, NEW dec
  PROVE  ValueStands(display(p, integ, dec), integ, dec)
<1>1. PICK q : q = display(p, integ, dec)
  OBVIOUS
<1>2. ASSUME NEW y \in 0..249, NEW x \in 0..15
      PROVE  CellIs(q, p, integ, dec, y, x)
  BY <1>1, CellShows
<1>3. Stands(q, integ % 10, 5, 9, 119, 174)
  <2>1. ASSUME NEW r \in 119..174, NEW c \in 5..5 + 9 - 1
        PROVE  q[r][c] = picture(integ % 10, (174 - r) * 9 + c - 5)
    <3>0. r \in 0..249 /\ c \in 0..15
      OBVIOUS
    <3>1. CellIs(q, p, integ, dec, r, c)
      BY <1>2, <3>0, Zenon
    <3> QED
      BY <3>1 DEF CellIs
  <2> QED
    BY <2>1, Zenon DEF Stands
<1>4. Stands(q, dec % 10, 5, 9, 45, 100)
  <2>1. ASSUME NEW r \in 45..100, NEW c \in 5..5 + 9 - 1
        PROVE  q[r][c] = picture(dec % 10, (100 - r) * 9 + c - 5)
    <3>0. r \in 0..249 /\ c \in 0..15
      OBVIOUS
    <3>1. CellIs(q, p, integ, dec, r, c)
      BY <1>2, <3>0, Zenon
    <3> QED
      BY <3>1 DEF CellIs
  <2> QED
    BY <2>1, Zenon DEF Stands
<1>5. \A r \in 175..225, c \in 5..13 : q[r][c] = picture(Tens(integ), (225 - r) * 9 + c - 5)
  <2>1. ASSUME NEW r \in 175..225, NEW c \in 5..13
        PROVE  q[r][c] = picture(Tens(integ), (225 - r) * 9 + c - 5)
    <3>0. r \in 0..249 /\ c \in 0..15
      OBVIOUS
    <3>1. CellIs(q, p, integ, dec, r, c)
      BY <1>2, <3>0, Zenon
    <3> QED
      BY <3>1 DEF CellIs
  <2> QED
    BY <2>1, Zenon
<1>6. Stands(q, gWhite, 8, 3, 226, 249)
  <2>1. ASSUME NEW r \in 226..249, NEW c \in 8..8 + 3 - 1
        PROVE  q[r][c] = picture(gWhite, (249 - r) * 3 + c - 8)
    <3>0. r \in 0..249 /\ c \in 0..15
      OBVIOUS
    <3>1. CellIs(q, p, integ, dec, r, c)
      BY <1>2, <3>0, Zenon
    <3>2. q[r][c] = White
      BY <3>1 DEF CellIs
    <3> QED
      BY <3>2, Pictures, Zenon
  <2> QED
    BY <2>1, Zenon DEF Stands
<1> QED
  BY <1>1, <1>3, <1>4, <1>5, <1>6, ZenonT(30) DEF ValueStands

LEMMA FrameStays ==
  ASSUME NEW p, NEW integ \in 0..127, NEW dec, FrameStands(p)
  PROVE  FrameStands(display(p, integ, dec))
<1>1. PICK q : q = display(p, integ, dec)
  OBVIOUS
<1>2. ASSUME NEW y \in 0..249, NEW x \in 0..15,
             (y \in 0..39 /\ x \in 8..13) \/ x \in 0..4
      PROVE  q[y][x] = p[y][x]
  <2>1. CellIs(q, p, integ, dec, y, x)
    BY <1>1, CellShows
  <2> QED
    BY <1>2, <2>1 DEF CellIs
<1>3. /\ Stands(p, gT48, 8, 6, 0, 39) /\ Stands(p, gDC6, 0, 5, 0, 82)
      /\ Stands(p, gSignal, 0, 5, 190, 249)
  BY Zenon DEF FrameStands
<1>4. Stands(q, gT48, 8, 6, 0, 39)
  <2>1. ASSUME NEW r \in 0..39, NEW c \in 8..8 + 6 - 1
        PROVE  q[r][c] = picture(gT48, (39 - r) * 6 + c - 8)
    <3>0. r \in 0..249 /\ c \in 0..15 /\ ((r \in 0..39 /\ c \in 8..13) \/ c \in 0..4)
      OBVIOUS
    <3>1. q[r][c] = p[r][c]
      BY <1>2, <3>0, Zenon
    <3>2. p[r][c] = picture(gT48, (39 - r) * 6 + c - 8)
      BY <1>3, Zenon DEF Stands
    <3> QED
      BY <3>1, <3>2
  <2> QED
    BY <2>1, Zenon DEF Stands
<1>5. Stands(q, gDC6, 0, 5, 0, 82)
  <2>1. ASSUME NEW r \in 0..82, NEW c \in 0..0 + 5 - 1
        PROVE  q[r][c] = picture(gDC6, (82 - r) * 5 + c - 0)
    <3>0. r \in 0..249 /\ c \in 0..15 /\ ((r \in 0..39 /\ c \in 8..13) \/ c \in 0..4)
      OBVIOUS
    <3>1. q[r][c] = p[r][c]
      BY <1>2, <3>0, Zenon
    <3>2. p[r][c] = picture(gDC6, (82 - r) * 5 + c - 0)
      BY <1>3, ZenonT(30) DEF Stands
    <3> QED
      BY <3>1, <3>2
  <2> QED
    BY <2>1, Zenon DEF Stands
<1>6. Stands(q, gSignal, 0, 5, 190, 249)
  <2>1. ASSUME NEW r \in 190..249, NEW c \in 0..0 + 5 - 1
        PROVE  q[r][c] = picture(gSignal, (249 - r) * 5 + c - 0)
    <3>0. r \in 0..249 /\ c \in 0..15 /\ ((r \in 0..39 /\ c \in 8..13) \/ c \in 0..4)
      OBVIOUS
    <3>1. q[r][c] = p[r][c]
      BY <1>2, <3>0, Zenon
    <3>2. p[r][c] = picture(gSignal, (249 - r) * 5 + c - 0)
      BY <1>3, ZenonT(30) DEF Stands
    <3> QED
      BY <3>1, <3>2
  <2> QED
    BY <2>1, Zenon DEF Stands
<1> QED
  BY <1>1, <1>4, <1>5, <1>6, Zenon DEF FrameStands

\* The four windows of the frame, at a place of the panel.
Drawn(a, b, c, d, e, y, x) ==
  /\ b[y][x] = IF y \in 0..39 /\ x \in 8..13 THEN picture(gT48, (39 - y) * 6 + x - 8) ELSE a[y][x]
  /\ c[y][x] = IF y \in 0..82 /\ x \in 0..4 THEN picture(gDC6, (82 - y) * 5 + x - 0) ELSE b[y][x]
  /\ d[y][x] = IF y \in 190..249 /\ x \in 0..4 THEN picture(gSignal, (249 - y) * 5 + x - 0) ELSE c[y][x]
  /\ e[y][x] = IF y \in 102..113 /\ x \in 11..13 THEN picture(gDot, (113 - y) * 3 + x - 11) ELSE d[y][x]

\* eLinkInit draws the frame: each window keeps off those drawn before it.
LEMMA FrameDrawn ==
  ValueStands(eLinkInit, 0, 0) /\ FrameStands(eLinkInit)
<1>1. PICK a : a = EPD_Dis_Part(EPD_Dis_Full, 0, 249, 0, 127, gWhite)
  OBVIOUS
<1>2. PICK b : b = EPD_Dis_Part(a, 64, 111, 0, 39, gT48)
  OBVIOUS
<1>3. PICK c : c = EPD_Dis_Part(b, 0, 39, 0, 82, gDC6)
  OBVIOUS
<1>4. PICK d : d = EPD_Dis_Part(c, 0, 39, 190, 249, gSignal)
  OBVIOUS
<1>5. PICK e : e = EPD_Dis_Part(d, 88, 111, 102, 113, gDot)
  OBVIOUS
<1>6. eLinkInit = display(e, 0, 0)
  BY <1>1, <1>2, <1>3, <1>4, <1>5, Zenon DEF eLinkInit
<1>7. ASSUME NEW y \in 0..249, NEW x \in 0..15
      PROVE  Drawn(a, b, c, d, e, y, x)
  <2>1. y \in Rows /\ x \in Columns
    BY DEF Rows, Columns, yDot, xDot
  <2>2. b[y][x] = IF y \in 0..39 /\ x \in 8..13 THEN picture(gT48, (39 - y) * 6 + x - 8) ELSE a[y][x]
    BY <1>2, <2>1, Sizes, Firsts, PaintedCell
  <2>3. c[y][x] = IF y \in 0..82 /\ x \in 0..4 THEN picture(gDC6, (82 - y) * 5 + x - 0) ELSE b[y][x]
    BY <1>3, <2>1, Sizes, Firsts, PaintedCell
  <2>4. d[y][x] = IF y \in 190..249 /\ x \in 0..4 THEN picture(gSignal, (249 - y) * 5 + x - 0) ELSE c[y][x]
    BY <1>4, <2>1, Sizes, Firsts, PaintedCell
  <2>5. e[y][x] = IF y \in 102..113 /\ x \in 11..13 THEN picture(gDot, (113 - y) * 3 + x - 11) ELSE d[y][x]
    BY <1>5, <2>1, Sizes, Firsts, PaintedCell
  <2> QED
    BY <2>2, <2>3, <2>4, <2>5, Zenon DEF Drawn
<1>8. Stands(e, gT48, 8, 6, 0, 39)
  <2>1. ASSUME NEW r \in 0..39, NEW k \in 8..8 + 6 - 1
        PROVE  e[r][k] = picture(gT48, (39 - r) * 6 + k - 8)
    <3>1. r \in 0..249 /\ k \in 0..15
      OBVIOUS
    <3>2. Drawn(a, b, c, d, e, r, k)
      BY <1>7, <3>1, Zenon
    <3> QED
      BY <3>2 DEF Drawn
  <2> QED
    BY <2>1, Zenon DEF Stands
<1>9. Stands(e, gDC6, 0, 5, 0, 82)
  <2>1. ASSUME NEW r \in 0..82, NEW k \in 0..0 + 5 - 1
        PROVE  e[r][k] = picture(gDC6, (82 - r) * 5 + k - 0)
    <3>1. r \in 0..249 /\ k \in 0..15
      OBVIOUS
    <3>2. Drawn(a, b, c, d, e, r, k)
      BY <1>7, <3>1, Zenon
    <3> QED
      BY <3>2 DEF Drawn
  <2> QED
    BY <2>1, Zenon DEF Stands
<1>10. Stands(e, gSignal, 0, 5, 190, 249)
  <2>1. ASSUME NEW r \in 190..249, NEW k \in 0..0 + 5 - 1
        PROVE  e[r][k] = picture(gSignal, (249 - r) * 5 + k - 0)
    <3>1. r \in 0..249 /\ k \in 0..15
      OBVIOUS
    <3>2. Drawn(a, b, c, d, e, r, k)
      BY <1>7, <3>1, Zenon
    <3> QED
      BY <3>2 DEF Drawn
  <2> QED
    BY <2>1, Zenon DEF Stands
<1>11. FrameStands(e)
  BY <1>8, <1>9, <1>10, Zenon DEF FrameStands
<1>12. 0 \in 0..127
  OBVIOUS
<1> QED
  BY <1>6, <1>11, <1>12, DisplayShows, FrameStays

\* What holds between two readings.
DisplayInv ==
  /\ shown[1] \in 0..127 /\ shown[2] \in 0..9
  /\ ValueStands(panel, shown[1], shown[2])
  /\ FrameStands(panel)
  /\ ShownIsMeasured

\* The value that GetTemper reads out of two bytes.
TenthsOf(l) == ((l % 16) * 625) \div 1000

\* A value that is the temperature.
AsMeasured(integ, dec, r) == integ * 10 + dec = InTenths(r)

\* What fits in 16 bits.
Word == {n \in Nat : n <= 65535}

LEMMA Bytes ==
  ASSUME NEW r \in Word
  PROVE  /\ r \div 256 \in 0..255 /\ r % 256 \in 0..255
         /\ r = ((r \div 256) * 256) + (r % 256)
<1>1. r \in Nat /\ r < 65536
  BY DEF Word
<1> QED
  BY <1>1

\* The two bytes of a reading.
HasSign(h) == (h \div 8) % 2 = 1
Sixteenths(h, l) == h * 256 + l

LEMMA MeasuredWarm ==
  ASSUME NEW h \in 0..7, NEW l \in 0..255
  PROVE  ~HasSign(h) /\ AsMeasured(Temper(h, l), TenthsOf(l), Sixteenths(h, l))
<1>1. h % 8 = h /\ h \div 8 = 0
  OBVIOUS
<1>2. PICK a, b : a = l \div 16 /\ b = l % 16
  OBVIOUS
<1>3. a \in 0..15 /\ b \in 0..15 /\ l = a * 16 + b
  BY <1>2
<1>4. Temper(h, l) = h * 16 + a
  BY <1>1, <1>2 DEF Temper
<1>5. ((h * 256 + l) * 10) \div 16 = (h * 16 + a) * 10 + (b * 10) \div 16
  BY <1>3
<1>6. (b * 625) \div 1000 = (b * 10) \div 16
  BY <1>3
<1> QED
  BY <1>1, <1>2, <1>4, <1>5, <1>6 DEF AsMeasured, InTenths, TenthsOf, HasSign, Sixteenths

\* Below zero: the bytes are those of an amount, or of the one beside it.
IsCold(h, l, carry, u, v) ==
  /\ h \in 248..255 /\ l \in 0..255 /\ carry \in {0, 1}
  /\ u = (255 - h + carry) % 256 /\ v = (256 - l) % 256
AnAmount(integ, dec, r) == \E a \in Amounts(r) : AsMeasured(integ, dec, a % 2048)

LEMMA MeasuredCold ==
  ASSUME NEW h, NEW l, NEW carry, NEW u, NEW v, IsCold(h, l, carry, u, v)
  PROVE  HasSign(h) /\ AnAmount(Temper(u, v), TenthsOf(v), Sixteenths(h, l))
<1> USE DEF IsCold
<1>1. (h \div 8) % 2 = 1 /\ u \in 0..8 /\ v \in 0..255 /\ u = 255 - h + carry
  OBVIOUS
<1>2. PICK q : q = u % 8
  OBVIOUS
<1>3. q \in 0..7 /\ (u * 256 + v) % 2048 = q * 256 + v
  BY <1>1, <1>2
<1>4. Temper(u, v) = Temper(q, v)
  BY <1>1, <1>2 DEF Temper
<1>5. AsMeasured(Temper(u, v), TenthsOf(v), (u * 256 + v) % 2048)
  <2>1. AsMeasured(Temper(q, v), TenthsOf(v), Sixteenths(q, v))
    <3>1. q \in 0..7 /\ v \in 0..255
      BY <1>1, <1>3
    <3> QED
      BY ONLY <3>1, MeasuredWarm, Zenon
  <2>2. Sixteenths(q, v) = (u * 256 + v) % 2048
    BY <1>3 DEF Sixteenths
  <2> QED
    BY <1>4, <2>1, <2>2
<1>6. u * 256 + v \in Amounts(h * 256 + l)
  <2>1. PICK right \in Int : right = 65536 - (h * 256 + l)
    OBVIOUS
  <2>2. CASE l = 0
    <3>1. right % 256 = 0 /\ v = 0
      BY <2>1, <2>2
    <3>2. u * 256 + v = right \/ u * 256 + v = right - 256
      BY <1>1, <2>1, <2>2, <3>1
    <3> QED
      BY <2>1, <3>1, <3>2 DEF Amounts
  <2>3. CASE l # 0
    <3>1. right % 256 # 0 /\ v = 256 - l
      BY <2>1, <2>3
    <3>2. u * 256 + v = right \/ u * 256 + v = right + 256
      BY <1>1, <2>1, <3>1
    <3> QED
      BY <2>1, <3>1, <3>2 DEF Amounts
  <2> QED
    BY <2>2, <2>3
<1> QED
  BY <1>1, <1>5, <1>6 DEF HasSign, AnAmount, Sixteenths

\* Where a picture stands, its window is that picture.
LEMMA WindowIs ==
  ASSUME NEW name, name # gWhite, NEW x, NEW w, NEW yStart, NEW yEnd, NEW n,
         Frames(x, w, yStart, yEnd, n), Stands(panel, name, x, w, yStart, yEnd)
  PROVE  Window(x, w, yStart, yEnd) = Picture(name, n)
<1>1. ASSUME NEW k \in 0..n - 1
      PROVE  panel[yEnd - (k \div w)][x + (k % w)] = <<name, k>>
  <2>1. ShowsByte(name, x, w, yEnd, k)
    BY WindowShows
  <2> QED
    BY <2>1, Pictures, Zenon DEF ShowsByte
<1>2. n - 1 = ((yEnd - yStart + 1) * w) - 1
  BY Zenon DEF Frames
<1> QED
  BY <1>1, <1>2, Zenon DEF Window, Picture

\* White in a window.
Whites(n) == [k \in 0..n - 1 |-> White]

LEMMA WindowIsWhite ==
  ASSUME NEW x, NEW w, NEW yStart, NEW yEnd, NEW n,
         Frames(x, w, yStart, yEnd, n), Stands(panel, gWhite, x, w, yStart, yEnd)
  PROVE  Window(x, w, yStart, yEnd) = Whites(n)
<1>1. ASSUME NEW k \in 0..n - 1
      PROVE  panel[yEnd - (k \div w)][x + (k % w)] = White
  <2>1. ShowsByte(gWhite, x, w, yEnd, k)
    BY WindowShows
  <2> QED
    BY <2>1, Pictures, Zenon DEF ShowsByte
<1>2. n - 1 = ((yEnd - yStart + 1) * w) - 1
  BY Zenon DEF Frames
<1> QED
  BY <1>1, <1>2, Zenon DEF Window, Whites

\* ShowsTheFigures of any two numbers.
Shows(i, d) ==
  LET tens  == IF (i \div 10) % 10 = 0 THEN [k \in 0..503 |-> White]
                                       ELSE Picture((i \div 10) % 10, 504)
  IN  /\ Window(5, 9, 119, 174) = Picture(i % 10, 504)
      /\ Window(5, 9, 45, 100) = Picture(d % 10, 504)
      /\ \A k \in 0..(51 * 9) - 1 : Window(5, 9, 175, 225)[k] = tens[k]
      /\ Window(8, 3, 226, 249) = [k \in 0..71 |-> White]
      /\ Window(8, 6, 0, 39) = Picture(gT48, 240)
      /\ Window(0, 5, 0, 82) = Picture(gDC6, 415)
      /\ Window(0, 5, 190, 249) = Picture(gSignal, 300)

\* The value stands in the windows and the frame around it: ShowsTheFigures.
LEMMA StandsShows ==
  ASSUME DisplayInv
  PROVE  ShowsTheFigures
<1>1. PICK i, d : i = shown[1] /\ d = shown[2]
  OBVIOUS
<1>2. i \in 0..127 /\ d \in 0..9
  BY <1>1 DEF DisplayInv
<1>3. ValueStands(panel, i, d) /\ FrameStands(panel)
  BY <1>1, Zenon DEF DisplayInv
<1>4. /\ Stands(panel, i % 10, 5, 9, 119, 174)
      /\ Stands(panel, d % 10, 5, 9, 45, 100)
      /\ \A r \in 175..225, c \in 5..13 : panel[r][c] = picture(Tens(i), (225 - r) * 9 + c - 5)
      /\ Stands(panel, gWhite, 8, 3, 226, 249)
      /\ Stands(panel, gT48, 8, 6, 0, 39)
      /\ Stands(panel, gDC6, 0, 5, 0, 82)
      /\ Stands(panel, gSignal, 0, 5, 190, 249)
  BY <1>3, Zenon DEF ValueStands, FrameStands
<1>5. i % 10 # gWhite /\ d % 10 # gWhite /\ gT48 # gWhite /\ gDC6 # gWhite /\ gSignal # gWhite
  BY <1>2 DEF gWhite, gT48, gDC6, gSignal
<1>6. Window(5, 9, 119, 174) = Picture(i % 10, 504)
  <2>1. Frames(5, 9, 119, 174, 504)
    BY DEF Frames
  <2> QED
    BY <1>4, <1>5, <2>1, WindowIs
<1>7. Window(5, 9, 45, 100) = Picture(d % 10, 504)
  <2>1. Frames(5, 9, 45, 100, 504)
    BY DEF Frames
  <2> QED
    BY <1>4, <1>5, <2>1, WindowIs
<1>8. Window(8, 3, 226, 249) = [k \in 0..71 |-> White]
  <2>1. Frames(8, 3, 226, 249, 72)
    BY DEF Frames
  <2>2. Whites(72) = [k \in 0..71 |-> White]
    BY DEF Whites
  <2> QED
    BY <1>4, <1>5, <2>1, <2>2, WindowIsWhite
<1>9. Window(8, 6, 0, 39) = Picture(gT48, 240)
  <2>1. Frames(8, 6, 0, 39, 240)
    BY DEF Frames
  <2> QED
    BY <1>4, <1>5, <2>1, WindowIs
<1>10. Window(0, 5, 0, 82) = Picture(gDC6, 415)
  <2>1. Frames(0, 5, 0, 82, 415)
    BY DEF Frames
  <2> QED
    BY <1>4, <1>5, <2>1, WindowIs
<1>11. Window(0, 5, 190, 249) = Picture(gSignal, 300)
  <2>1. Frames(0, 5, 190, 249, 300)
    BY DEF Frames
  <2> QED
    BY <1>4, <1>5, <2>1, WindowIs
<1> DEFINE tens == IF (i \div 10) % 10 = 0 THEN [k \in 0..503 |-> White] ELSE Picture((i \div 10) % 10, 504)
<1>12. ASSUME NEW k \in 0..(51 * 9) - 1
       PROVE  Window(5, 9, 175, 225)[k] = tens[k]
  <2>1. Stands(panel, Tens(i), 5, 9, 175, 225)
    <3>1. ASSUME NEW r \in 175..225, NEW c \in 5..5 + 9 - 1
          PROVE  panel[r][c] = picture(Tens(i), (225 - r) * 9 + c - 5)
      <4>1. c \in 5..13
        OBVIOUS
      <4> QED
        BY <1>4, <4>1, Zenon
    <3> QED
      BY <3>1, Zenon DEF Stands
  <2>2. k \in 0..459 - 1 /\ k \in 0..((225 - 175 + 1) * 9) - 1 /\ k \in 0..503 /\ k \in 0..504 - 1
    OBVIOUS
  <2>20. Frames(5, 9, 175, 225, 459)
    BY DEF Frames
  <2>3. ShowsByte(Tens(i), 5, 9, 225, k)
    BY <2>1, <2>2, <2>20, WindowShows
  <2>4. Window(5, 9, 175, 225)[k] = picture(Tens(i), k)
    BY <2>2, <2>3, Zenon DEF Window, ShowsByte
  <2>5. CASE (i \div 10) % 10 = 0
    <3>1. tens[k] = White /\ Tens(i) = gWhite
      BY <2>2, <2>5, Zenon DEF Tens
    <3> QED
      BY <2>4, <3>1, Pictures, ZenonT(30)
  <2>6. CASE (i \div 10) % 10 # 0
    <3>1. Tens(i) = (i \div 10) % 10
      BY <2>6, Zenon DEF Tens
    <3>2. tens[k] = <<Tens(i), k>>
      BY <2>2, <2>6, <3>1, Zenon DEF Picture
    <3>3. Tens(i) # gWhite
      BY <1>2, <3>1 DEF gWhite
    <3> QED
      BY <2>4, <3>2, <3>3, Pictures, ZenonT(30)
  <2> QED
    BY <2>5, <2>6
<1>13. Shows(i, d)
  BY <1>6, <1>7, <1>8, <1>9, <1>10, <1>11, <1>12, Zenon DEF Shows
<1>14. Shows(shown[1], shown[2])
  BY <1>1, <1>13
<1> QED
  BY <1>14, Zenon DEF Shows, ShowsTheFigures

\* A turn of GetTemper.
BytesOf(r, carry) ==
  IF ((r \div 256) \div 8) % 2 = 1 THEN Complement(r \div 256, r % 256, carry)
                                   ELSE <<r \div 256, r % 256>>
Displayed(r, integ, dec) ==
  reading' = r /\ shown' = <<integ, dec>> /\ panel' = display(panel, integ, dec)

Read18B20(r, carry) ==
  LET h  == r \div 256
      l  == r % 256
      hl == IF (h \div 8) % 2 = 1 THEN Complement(h, l, carry) ELSE <<h, l>>
      integ == Temper(hl[1], hl[2])
      dec   == ((hl[2] % 16) * 625) \div 1000
  IN  /\ reading' = r
      /\ shown' = <<integ, dec>>
      /\ panel' = display(panel, integ, dec)

LEMMA DisplayStep ==
  ASSUME Readings \subseteq Word, DisplayInv, [DisplayNext]_displayVars
  PROVE  DisplayInv'
<1>1. CASE UNCHANGED displayVars
  BY <1>1 DEF DisplayInv, displayVars, ShownIsMeasured
<1>2. CASE GetTemper
  <2>1. PICK r \in Readings, carry \in {0, 1} : Read18B20(r, carry)
    BY <1>2, Zenon DEF GetTemper, Read18B20
  <2>2. PICK h, l, hl, i, d :
          /\ h = r \div 256 /\ l = r % 256 /\ hl = BytesOf(r, carry)
          /\ i = Temper(hl[1], hl[2]) /\ d = TenthsOf(hl[2])
    OBVIOUS
  <2>3. Displayed(r, i, d)
    <3>1. Displayed(r, Temper(BytesOf(r, carry)[1], BytesOf(r, carry)[2]), TenthsOf(BytesOf(r, carry)[2]))
      BY <2>1, Zenon DEF Read18B20, Displayed, BytesOf, TenthsOf
    <3> QED
      BY <2>2, <3>1, Zenon
  <2>4. r \in Word /\ carry \in {0, 1}
    BY <2>1
  <2>41. h \in 0..255 /\ l \in 0..255 /\ r = h * 256 + l
    BY <2>2, <2>4, Bytes, ZenonT(30)
  <2>42. hl = IF (h \div 8) % 2 = 1 THEN Complement(h, l, carry) ELSE <<h, l>>
    BY <2>2, Zenon DEF BytesOf
  <2>5. hl[1] \in 0..255 /\ hl[2] \in 0..255
    <3>1. (255 - h + carry) % 256 \in 0..255 /\ (256 - l) % 256 \in 0..255
      BY <2>4, <2>41
    <3>2. CASE (h \div 8) % 2 = 1
      <4>1. hl = <<(255 - h + carry) % 256, (256 - l) % 256>>
        BY <2>42, <3>2, Zenon DEF Complement
      <4> QED
        BY <3>1, <4>1
    <3>3. CASE (h \div 8) % 2 # 1
      <4>1. hl = <<h, l>>
        BY <2>42, <3>3, Zenon
      <4> QED
        BY <2>41, <4>1
    <3> QED
      BY <3>2, <3>3, Zenon
  <2>7. i \in 0..127 /\ d \in 0..9
    <3>1. PICK u, v : u = hl[1] /\ v = hl[2]
      OBVIOUS
    <3>2. u \in 0..255 /\ v \in 0..255
      BY <2>5, <3>1, Zenon
    <3>3. Temper(u, v) \in 0..127 /\ TenthsOf(v) \in 0..9
      BY <3>2 DEF Temper, TenthsOf
    <3> QED
      BY <2>2, <3>1, <3>3, Zenon
  <2>8. reading' = r /\ shown'[1] = i /\ shown'[2] = d /\ panel' = display(panel, i, d)
    BY <2>3 DEF Displayed
  <2>9. ValueStands(panel', i, d)
    BY <2>7, <2>8, DisplayShows
  <2>10. FrameStands(panel')
    <3>1. FrameStands(panel)
      BY Zenon DEF DisplayInv
    <3> QED
      BY <2>7, <2>8, <3>1, FrameStays
  <2>11. ShownIsMeasured'
    <3>1. ASSUME r \in 0..2047
          PROVE  AsMeasured(i, d, r)
      <4>1. h \in 0..7
        BY <2>41, <3>1
      <4>2. ~HasSign(h) /\ AsMeasured(Temper(h, l), TenthsOf(l), Sixteenths(h, l))
        BY <4>1, <2>41, MeasuredWarm
      <4>3. hl = <<h, l>> /\ r = Sixteenths(h, l)
        BY <2>41, <2>42, <4>2, Zenon DEF HasSign, Sixteenths
      <4>4. hl[1] = h /\ hl[2] = l
        BY <4>3
      <4> QED
        BY <2>2, <4>2, <4>3, <4>4, Zenon
    <3>2. ASSUME r \in 63488..65535
          PROVE  AnAmount(i, d, r)
      <4>1. PICK u, v : u = (255 - h + carry) % 256 /\ v = (256 - l) % 256
        OBVIOUS
      <4>2. IsCold(h, l, carry, u, v) /\ r = Sixteenths(h, l)
        BY <2>4, <2>41, <3>2, <4>1 DEF IsCold, Sixteenths
      <4>3. HasSign(h) /\ AnAmount(Temper(u, v), TenthsOf(v), r)
        BY <4>2, MeasuredCold, Zenon
      <4>4. hl = <<u, v>>
        BY <2>42, <4>1, <4>3, Zenon DEF Complement, HasSign
      <4>5. hl[1] = u /\ hl[2] = v
        BY <4>4
      <4> QED
        BY <2>2, <4>3, <4>5, Zenon
    <3>3. /\ r \in 0..2047 => i * 10 + d = InTenths(r)
          /\ r \in 63488..65535 => \E a \in Amounts(r) : i * 10 + d = InTenths(a % 2048)
      BY <3>1, <3>2 DEF AsMeasured, AnAmount
    <3> QED
      BY <2>8, <3>3 DEF ShownIsMeasured
  <2> QED
    BY <2>7, <2>8, <2>9, <2>10, <2>11, Zenon DEF DisplayInv
<1> QED
  BY <1>1, <1>2 DEF DisplayNext

\* Every reading wipes out the one before: the panel shows the frame and the last two
\* figures and tenths of the last value, whatever was shown; from zero degrees up this
\* value is the temperature, below zero its amount or 16 degrees beside it.
THEOREM PanelShowsTheReading ==
  ASSUME Readings \subseteq Word
  PROVE  DisplaySpec => [](ShowsTheFigures /\ ShownIsMeasured)
<1>1. DisplayInit => DisplayInv
  <2> SUFFICES ASSUME DisplayInit PROVE DisplayInv
    OBVIOUS
  <2>1. panel = eLinkInit /\ shown[1] = 0 /\ shown[2] = 0 /\ reading = NoReading
    BY DEF DisplayInit
  <2>2. ValueStands(panel, shown[1], shown[2]) /\ FrameStands(panel)
    BY <2>1, FrameDrawn
  <2>3. ShownIsMeasured
    BY <2>1 DEF ShownIsMeasured, NoReading
  <2>4. shown[1] \in 0..127 /\ shown[2] \in 0..9
    BY <2>1
  <2> QED
    BY <2>2, <2>3, <2>4, Zenon DEF DisplayInv
<1>2. DisplayInv /\ [DisplayNext]_displayVars => DisplayInv'
  BY DisplayStep
<1>3. DisplayInv => ShowsTheFigures /\ ShownIsMeasured
  BY StandsShows, Zenon DEF DisplayInv
<1> QED
  BY <1>1, <1>2, <1>3, PTL DEF DisplaySpec

-----------------------------------------------------------------------------
(* Profile                                                                 *)

\* A line stands in a file behind the first n characters.
Has(file, n, line) ==
  /\ file \in Seq(Int) /\ line \in Seq(Int) /\ n \in Nat
  /\ n + Len(line) <= Len(file)
  /\ \A i \in 1..Len(line) : file[n + i] = line[i]

\* A line of one name and one value, not too long for fgets.
Words == Seq(Int \ {9, 10})
IsLine(line, name, value) ==
  /\ name \in Words /\ value \in Words
  /\ line = Line(name, value)
  /\ Len(name) + Len(value) <= 27

\* Its characters.
Spelt(line, name, value) ==
  /\ line \in Seq(Int) /\ Len(name) \in Nat /\ Len(value) \in Nat
  /\ Len(line) = Len(name) + Len(value) + 4
  /\ \A i \in 1..Len(name) : line[i] = name[i] /\ line[i] # 9 /\ line[i] # 10
  /\ line[Len(name) + 1] = 9
  /\ \A i \in 1..Len(value) : /\ line[Len(name) + 1 + i] = value[i]
                              /\ value[i] # 9 /\ value[i] # 10
  /\ line[Len(name) + Len(value) + 2] = 9
  /\ line[Len(name) + Len(value) + 3] = 13
  /\ line[Len(name) + Len(value) + 4] = 10

LEMMA HasWhole ==
  ASSUME NEW s \in Seq(Int)
  PROVE  Has(s, 0, s)
BY DEF Has

\* What is put together.
IsJoined(q, s, u) ==
  q \in Seq(Int) /\ Has(q, 0, s) /\ Has(q, Len(s), u) /\ Len(q) = Len(s) + Len(u)

LEMMA HasJoined ==
  ASSUME NEW s \in Seq(Int), NEW u \in Seq(Int), NEW q, q = s \o u
  PROVE  IsJoined(q, s, u)
<1>1. /\ q \in Seq(Int) /\ Len(q) = Len(s) + Len(u)
      /\ \A k \in 1..Len(s) + Len(u) : q[k] = IF k <= Len(s) THEN s[k] ELSE u[k - Len(s)]
  BY ConcatProperties
<1>2. Len(s) \in Nat /\ Len(u) \in Nat
  OBVIOUS
<1>3. ASSUME NEW k \in 1..Len(u)
      PROVE  q[Len(s) + k] = u[k]
  <2>1. PICK i : i = Len(s) + k
    OBVIOUS
  <2>2. i \in 1..Len(s) + Len(u) /\ ~(i <= Len(s)) /\ i - Len(s) = k
    BY <1>2, <2>1
  <2>3. q[i] = IF i <= Len(s) THEN s[i] ELSE u[i - Len(s)]
    BY <1>1, <2>2
  <2> QED
    BY <2>1, <2>2, <2>3, Zenon
<1>4. Has(q, 0, s)
  BY <1>1, <1>2 DEF Has
<1>5. Has(q, Len(s), u)
  BY <1>1, <1>2, <1>3 DEF Has
<1> QED
  BY <1>1, <1>4, <1>5 DEF IsJoined

\* A part of a part.
LEMMA HasPart ==
  ASSUME NEW file, NEW n, NEW piece, NEW m, NEW line, NEW k, k = n + m,
         Has(file, n, piece), Has(piece, m, line)
  PROVE  Has(file, k, line)
<1>1. /\ file \in Seq(Int) /\ piece \in Seq(Int) /\ line \in Seq(Int) /\ n \in Nat /\ m \in Nat
      /\ n + Len(piece) <= Len(file) /\ m + Len(line) <= Len(piece)
      /\ \A i \in 1..Len(piece) : file[n + i] = piece[i]
      /\ \A i \in 1..Len(line) : piece[m + i] = line[i]
  BY Zenon DEF Has
<1>2. Len(file) \in Nat /\ Len(piece) \in Nat /\ Len(line) \in Nat
  BY <1>1
<1>3. ASSUME NEW i \in 1..Len(line)
      PROVE  file[k + i] = line[i]
  <2>1. PICK j : j = m + i
    OBVIOUS
  <2>2. j \in 1..Len(piece) /\ n + j = k + i
    BY <1>1, <1>2, <2>1
  <2>3. file[n + j] = piece[j] /\ piece[m + i] = line[i]
    BY <1>1, <2>2
  <2> QED
    BY <2>1, <2>2, <2>3, Zenon
<1>4. k \in Nat /\ k + Len(line) <= Len(file)
  BY <1>1, <1>2
<1> QED
  BY <1>1, <1>3, <1>4, Zenon DEF Has

LEMMA HasInFirst ==
  ASSUME NEW file, NEW piece, NEW m, NEW line, Has(file, 0, piece), Has(piece, m, line)
  PROVE  Has(file, m, line)
<1>1. m = 0 + m
  BY DEF Has
<1> QED
  BY <1>1, HasPart, Zenon

LEMMA LineIsSpelt ==
  ASSUME NEW line, NEW name, NEW value, IsLine(line, name, value)
  PROVE  Spelt(line, name, value)
<1>1. /\ name \in Seq(Int) /\ value \in Seq(Int) /\ Len(name) \in Nat /\ Len(value) \in Nat
      /\ \A i \in 1..Len(name) : name[i] \in Int /\ name[i] # 9 /\ name[i] # 10
      /\ \A i \in 1..Len(value) : value[i] \in Int /\ value[i] # 9 /\ value[i] # 10
  BY DEF IsLine, Words
<1>2. PICK t, crlf : t = <<9>> /\ crlf = <<13, 10>>
  OBVIOUS
<1>3. /\ t \in Seq(Int) /\ Len(t) = 1 /\ t[1] = 9
      /\ crlf \in Seq(Int) /\ Len(crlf) = 2 /\ crlf[1] = 13 /\ crlf[2] = 10
  BY <1>2
<1>4. PICK a : a = name \o t
  OBVIOUS
<1>5. PICK b : b = a \o value
  OBVIOUS
<1>6. PICK c : c = b \o t
  OBVIOUS
<1>7. line = c \o crlf
  BY <1>2, <1>4, <1>5, <1>6, Zenon DEF IsLine, Line, Tab, CrLf
<1>8. a \in Seq(Int) /\ Has(a, 0, name) /\ Has(a, Len(name), t) /\ Len(a) = Len(name) + 1
  <2>1. IsJoined(a, name, t)
    BY <1>1, <1>3, <1>4, HasJoined, Zenon
  <2> QED
    BY <1>3, <2>1 DEF IsJoined
<1>9. b \in Seq(Int) /\ Has(b, 0, a) /\ Has(b, Len(a), value) /\ Len(b) = Len(a) + Len(value)
  <2>1. IsJoined(b, a, value)
    BY <1>1, <1>5, <1>8, HasJoined, Zenon
  <2> QED
    BY <2>1 DEF IsJoined
<1>10. c \in Seq(Int) /\ Has(c, 0, b) /\ Has(c, Len(b), t) /\ Len(c) = Len(b) + 1
  <2>1. IsJoined(c, b, t)
    BY <1>3, <1>6, <1>9, HasJoined, Zenon
  <2> QED
    BY <1>3, <2>1 DEF IsJoined
<1>11. line \in Seq(Int) /\ Has(line, 0, c) /\ Has(line, Len(c), crlf) /\ Len(line) = Len(c) + 2
  <2>1. IsJoined(line, c, crlf)
    BY <1>3, <1>7, <1>10, HasJoined, Zenon
  <2> QED
    BY <1>3, <2>1 DEF IsJoined
<1>12. Has(line, 0, b) /\ Has(line, Len(b), t)
  BY <1>10, <1>11, HasInFirst, Zenon
<1>13. Has(line, 0, a) /\ Has(line, Len(a), value)
  BY <1>9, <1>12, HasInFirst, Zenon
<1>14. Has(line, 0, name) /\ Has(line, Len(name), t)
  BY <1>8, <1>13, HasInFirst, Zenon
<1>15. Len(line) = Len(name) + Len(value) + 4
  BY <1>1, <1>8, <1>9, <1>10, <1>11
<1>16. \A i \in 1..Len(name) : line[i] = name[i]
  BY <1>1, <1>14 DEF Has
<1>17. line[Len(name) + 1] = 9
  BY <1>3, <1>14 DEF Has
<1>18. \A i \in 1..Len(value) : line[Len(name) + 1 + i] = value[i]
  BY <1>8, <1>13 DEF Has
<1>19. line[Len(name) + Len(value) + 2] = 9
  <2>1. Len(b) + 1 = Len(name) + Len(value) + 2
    BY <1>1, <1>8, <1>9
  <2>2. line[Len(b) + 1] = 9
    BY <1>3, <1>12 DEF Has
  <2> QED
    BY <2>1, <2>2
<1>20. line[Len(name) + Len(value) + 3] = 13 /\ line[Len(name) + Len(value) + 4] = 10
  <2>1. Len(c) + 1 = Len(name) + Len(value) + 3 /\ Len(c) + 2 = Len(name) + Len(value) + 4
    BY <1>1, <1>8, <1>9, <1>10
  <2>2. line[Len(c) + 1] = 13 /\ line[Len(c) + 2] = 10
    BY <1>3, <1>11 DEF Has
  <2> QED
    BY <2>1, <2>2
<1> QED
  BY <1>1, <1>11, <1>15, <1>16, <1>17, <1>18, <1>19, <1>20 DEF Spelt

\* What LineEnd chooses.
EndsAt(file, n, e) ==
  /\ e = Len(file) \/ e = n + Width - 1 \/ (e > n /\ file[e] = 10)
  /\ \A d \in (n + 1)..(e - 1) : file[d] # 10

\* Where fgets ends that begins at a line.
LEMMA LineEnds ==
  ASSUME NEW file, NEW n, NEW line, NEW name, NEW value,
         IsLine(line, name, value), Has(file, n, line)
  PROVE  LineEnd(file, n) = n + Len(line)
<1>1. Spelt(line, name, value)
  BY LineIsSpelt
<1>2. PICK e : e = n + Len(line)
  OBVIOUS
<1>9. /\ file \in Seq(Int) /\ n \in Nat /\ n + Len(line) <= Len(file)
      /\ \A i \in 1..Len(line) : file[n + i] = line[i]
  BY Zenon DEF Has
<1>10. /\ Len(name) \in Nat /\ Len(value) \in Nat /\ Len(line) = Len(name) + Len(value) + 4
       /\ line[Len(name) + Len(value) + 4] = 10
  BY <1>1, Zenon DEF Spelt
<1>11. Len(name) + Len(value) <= 27
  BY Zenon DEF IsLine
<1>3. /\ file \in Seq(Int) /\ n \in Nat /\ Len(file) \in Nat /\ Len(line) \in Nat
      /\ e <= Len(file) /\ e > n /\ e <= n + 31
  BY <1>2, <1>9, <1>10, <1>11
<1>4. file[e] = 10
  <2>1. Len(line) \in 1..Len(line)
    BY <1>10
  <2>2. file[n + Len(line)] = line[Len(line)]
    BY <1>9, <2>1
  <2> QED
    BY <1>2, <1>10, <2>2
<1>5. ASSUME NEW d \in (n + 1)..(e - 1)
      PROVE  file[d] # 10
  <2>1. PICK i : i = d - n
    OBVIOUS
  <2>2. i \in 1..Len(line) - 1 /\ d = n + i
    BY <1>2, <1>3, <2>1
  <2>3. file[d] = line[i]
    BY <1>3, <2>2 DEF Has
  <2>4. line[i] # 10
    <3>1. /\ Len(name) \in Nat /\ Len(value) \in Nat /\ Len(line) = Len(name) + Len(value) + 4
      BY <1>1 DEF Spelt
    <3>2. CASE i \in 1..Len(name)
      BY <1>1, <3>2 DEF Spelt
    <3>3. CASE i = Len(name) + 1
      BY <1>1, <3>3 DEF Spelt
    <3>4. CASE i \in Len(name) + 2..Len(name) + Len(value) + 1
      <4>1. PICK j : j = i - Len(name) - 1
        OBVIOUS
      <4>2. j \in 1..Len(value) /\ i = Len(name) + 1 + j
        BY <3>1, <3>4, <4>1
      <4> QED
        BY <1>1, <4>2 DEF Spelt
    <3>5. CASE i = Len(name) + Len(value) + 2
      BY <1>1, <3>5 DEF Spelt
    <3>6. CASE i = Len(name) + Len(value) + 3
      BY <1>1, <3>6 DEF Spelt
    <3> QED
      BY <2>2, <3>1, <3>2, <3>3, <3>4, <3>5, <3>6
  <2> QED
    BY <2>3, <2>4
<1>6. e \in n..Len(file) /\ EndsAt(file, n, e)
  <2>1. e \in n..Len(file)
    BY <1>2, <1>3
  <2>2. e > n /\ file[e] = 10
    BY <1>3, <1>4
  <2>3. \A d \in (n + 1)..(e - 1) : file[d] # 10
    BY <1>5, Zenon
  <2> QED
    BY <2>1, <2>2, <2>3, Zenon DEF EndsAt
<1>7. ASSUME NEW f \in n..Len(file), EndsAt(file, n, f)
      PROVE  f = e
  <2>0. /\ f = Len(file) \/ f = n + Width - 1 \/ (f > n /\ file[f] = 10)
        /\ \A d \in (n + 1)..(f - 1) : file[d] # 10
    BY <1>7, Zenon DEF EndsAt
  <2>00. f \in Int /\ f <= Len(file) /\ f >= n /\ e \in Int
    BY <1>2, <1>3, <1>7
  <2>1. ~(f > e)
    <3> SUFFICES ASSUME f > e PROVE FALSE
      OBVIOUS
    <3>1. e \in (n + 1)..(f - 1)
      BY <1>3, <2>00
    <3> QED
      BY <1>4, <2>0, <3>1, Zenon
  <2>2. ~(f < e)
    <3> SUFFICES ASSUME f < e PROVE FALSE
      OBVIOUS
    <3>1. f # Len(file) /\ f # n + Width - 1
      BY <1>3, <2>00 DEF Width
    <3>2. f > n /\ file[f] = 10
      BY <2>0, <3>1, Zenon
    <3>3. f \in (n + 1)..(e - 1)
      BY <1>3, <2>00, <3>2
    <3> QED
      BY <1>5, <3>2, <3>3, Zenon
  <2> QED
    BY <2>00, <2>1, <2>2
<1>8. LineEnd(file, n) = CHOOSE f \in n..Len(file) : EndsAt(file, n, f)
  BY Zenon DEF LineEnd, EndsAt
<1> QED
  BY <1>2, <1>6, <1>7, <1>8

\* fgets reads it.
LEMMA LineIsRead ==
  ASSUME NEW file, NEW n, NEW line, NEW name, NEW value,
         IsLine(line, name, value), Has(file, n, line)
  PROVE  fgets(file, n) = line
<1>1. LineEnd(file, n) = n + Len(line)
  BY LineEnds
<1>2. /\ file \in Seq(Int) /\ line \in Seq(Int) /\ n \in Nat /\ Len(line) \in Nat /\ Len(file) \in Nat
      /\ n + Len(line) <= Len(file)
      /\ \A i \in 1..Len(line) : file[n + i] = line[i]
  BY DEF Has
<1>3. PICK m, e : m = n + 1 /\ e = n + Len(line)
  OBVIOUS
<1>4. PICK s : s = SubSeq(file, m, e)
  OBVIOUS
<1>5. ASSUME NEW i \in m..e
      PROVE  file[i] \in Int
  <2>1. i \in 1..Len(file)
    BY <1>2, <1>3
  <2> QED
    BY <1>2, <2>1, ElementOfSeq, Zenon
<1>6. m \in Int /\ e \in Int /\ e - m + 1 = Len(line) /\ (IF m <= e THEN e - m + 1 ELSE 0) = Len(line)
  BY <1>2, <1>3
<1>7. s \in Seq(Int) /\ Len(s) = Len(line) /\ \A i \in 1..Len(line) : s[i] = file[m + i - 1]
  BY <1>4, <1>5, <1>6, SubSeqProperties
<1>8. ASSUME NEW i \in 1..Len(line)
      PROVE  s[i] = line[i]
  <2>1. m + i - 1 = n + i
    BY <1>2, <1>3
  <2> QED
    BY <1>2, <1>7, <2>1
<1>9. s = line
  BY <1>2, <1>7, <1>8, SeqEqual
<1> QED
  BY <1>1, <1>3, <1>4, <1>9, Zenon DEF fgets

-----------------------------------------------------------------------------
IsWord(word, n) == word \in Words /\ Len(word) = n

LEMMA LetterWords ==
  ASSUME NEW k \in 1..10, NEW n \in Nat
  PROVE  IsWord(Letters(k, n), n)
<1>1. PICK s : s = [i \in 1..n |-> 100 * k + i]
  OBVIOUS
<1>2. ASSUME NEW i \in 1..n
      PROVE  s[i] \in Int \ {9, 10}
  BY <1>1
<1>3. s \in [1..n -> Int \ {9, 10}]
  BY <1>1, <1>2
<1>4. s \in Seq(Int \ {9, 10}) /\ Len(s) = n
  BY <1>3
<1> QED
  BY <1>1, <1>4, Zenon DEF Letters, Words, IsWord

LEMMA FiveNames ==
  /\ Letters(1, 9) \in Words /\ Len(Letters(1, 9)) = 9
  /\ Letters(2, 10) \in Words /\ Len(Letters(2, 10)) = 10
  /\ Letters(3, 11) \in Words /\ Len(Letters(3, 11)) = 11
  /\ Letters(4, 12) \in Words /\ Len(Letters(4, 12)) = 12
  /\ Letters(5, 3) \in Words /\ Len(Letters(5, 3)) = 3
  /\ Letters(6, 15) \in Words /\ Len(Letters(6, 15)) = 15
  /\ Letters(7, 4) \in Words /\ Len(Letters(7, 4)) = 4
  /\ Letters(8, 4) \in Words /\ Len(Letters(8, 4)) = 4
  /\ Letters(9, 2) \in Words /\ Len(Letters(9, 2)) = 2
  /\ Device \in Words /\ Len(Device) = 12
<1>1. /\ 1 \in 1..10 /\ 2 \in 1..10 /\ 3 \in 1..10 /\ 4 \in 1..10 /\ 5 \in 1..10 /\ 6 \in 1..10
      /\ 7 \in 1..10 /\ 8 \in 1..10 /\ 9 \in 1..10 /\ 10 \in 1..10
      /\ 2 \in Nat /\ 3 \in Nat /\ 4 \in Nat /\ 9 \in Nat /\ 10 \in Nat /\ 11 \in Nat
      /\ 12 \in Nat /\ 15 \in Nat
  OBVIOUS
<1>2. /\ IsWord(Letters(1, 9), 9) /\ IsWord(Letters(2, 10), 10) /\ IsWord(Letters(3, 11), 11)
      /\ IsWord(Letters(4, 12), 12) /\ IsWord(Letters(5, 3), 3) /\ IsWord(Letters(6, 15), 15)
      /\ IsWord(Letters(7, 4), 4) /\ IsWord(Letters(8, 4), 4) /\ IsWord(Letters(9, 2), 2)
      /\ IsWord(Letters(10, 12), 12)
  BY <1>1, LetterWords
<1> QED
  BY <1>2, Zenon DEF IsWord, Device

LEMMA LineLength ==
  ASSUME NEW line, NEW name, NEW value, IsLine(line, name, value)
  PROVE  Len(line) = Len(name) + Len(value) + 4
<1>1. Spelt(line, name, value)
  BY LineIsSpelt
<1> QED
  BY <1>1, Zenon DEF Spelt

\* The five lines.
LEMMA FiveLines ==
  /\ IsLine(DefaultLines[1], Letters(1, 9), Letters(6, 15)) /\ Len(DefaultLines[1]) = 28
  /\ IsLine(DefaultLines[2], Letters(2, 10), Letters(7, 4)) /\ Len(DefaultLines[2]) = 18
  /\ IsLine(DefaultLines[3], Letters(3, 11), Letters(8, 4)) /\ Len(DefaultLines[3]) = 19
  /\ IsLine(DefaultLines[4], Letters(4, 12), Letters(9, 2)) /\ Len(DefaultLines[4]) = 18
  /\ IsLine(DefaultLines[5], Letters(5, 3), Device) /\ Device \in Words /\ Len(Device) = 12
<1>2. /\ DefaultLines[1] = Line(Letters(1, 9), Letters(6, 15))
      /\ DefaultLines[2] = Line(Letters(2, 10), Letters(7, 4))
      /\ DefaultLines[3] = Line(Letters(3, 11), Letters(8, 4))
      /\ DefaultLines[4] = Line(Letters(4, 12), Letters(9, 2))
      /\ DefaultLines[5] = Line(Letters(5, 3), Device)
  BY DEF DefaultLines
<1>3. /\ IsLine(DefaultLines[1], Letters(1, 9), Letters(6, 15))
      /\ IsLine(DefaultLines[2], Letters(2, 10), Letters(7, 4))
      /\ IsLine(DefaultLines[3], Letters(3, 11), Letters(8, 4))
      /\ IsLine(DefaultLines[4], Letters(4, 12), Letters(9, 2))
      /\ IsLine(DefaultLines[5], Letters(5, 3), Device)
  <2>1. 9 + 15 <= 27 /\ 10 + 4 <= 27 /\ 11 + 4 <= 27 /\ 12 + 2 <= 27 /\ 3 + 12 <= 27
    OBVIOUS
  <2> QED
    BY <1>2, <2>1, FiveNames, Zenon DEF IsLine
<1>5. /\ Len(DefaultLines[1]) = 9 + 15 + 4 /\ Len(DefaultLines[2]) = 10 + 4 + 4
      /\ Len(DefaultLines[3]) = 11 + 4 + 4 /\ Len(DefaultLines[4]) = 12 + 2 + 4
  <2>1. Len(DefaultLines[1]) = Len(Letters(1, 9)) + Len(Letters(6, 15)) + 4
    BY <1>3, LineLength, SMTT(30)
  <2>2. Len(DefaultLines[2]) = Len(Letters(2, 10)) + Len(Letters(7, 4)) + 4
    BY <1>3, LineLength, SMTT(30)
  <2>3. Len(DefaultLines[3]) = Len(Letters(3, 11)) + Len(Letters(8, 4)) + 4
    BY <1>3, LineLength
  <2>4. Len(DefaultLines[4]) = Len(Letters(4, 12)) + Len(Letters(9, 2)) + 4
    BY <1>3, LineLength, SMTT(30)
  <2> QED
    BY <2>1, <2>2, <2>3, <2>4, FiveNames, Zenon
<1> QED
  BY <1>3, <1>5, FiveNames

\* A file whose first four lines are the default ones and whose fifth has this value.
Whole(file, value) ==
  /\ value \in Words /\ Len(value) <= 24
  /\ Has(file, 0, DefaultLines[1]) /\ Has(file, 28, DefaultLines[2])
  /\ Has(file, 46, DefaultLines[3]) /\ Has(file, 65, DefaultLines[4])
  /\ Has(file, 83, Line(Letters(5, 3), value))

LEMMA FifthLine ==
  ASSUME NEW value \in Words, Len(value) <= 24
  PROVE  IsLine(Line(Letters(5, 3), value), Letters(5, 3), value)
<1>1. Letters(5, 3) \in Words /\ Len(Letters(5, 3)) = 3
  BY FiveNames, Zenon
<1>2. Len(Letters(5, 3)) + Len(value) <= 27
  <2>1. PICK m, n : m = Len(value) /\ n = Len(Letters(5, 3))
    OBVIOUS
  <2>2. m \in Nat /\ m <= 24 /\ n = 3
    BY <1>1, <2>1 DEF Words
  <2>3. n + m <= 27
    BY <2>2
  <2> QED
    BY <2>1, <2>3, Zenon
<1> QED
  BY <1>1, <1>2, Zenon DEF IsLine

LEMMA DefaultIsWhole == Whole(DefaultFile, Device)
<1>1. PICK l1, l2, l3, l4, l5 : l1 = DefaultLines[1] /\ l2 = DefaultLines[2] /\ l3 = DefaultLines[3]
        /\ l4 = DefaultLines[4] /\ l5 = DefaultLines[5]
  OBVIOUS
<1>2. PICK a : a = l1 \o l2
  OBVIOUS
<1>3. PICK b : b = a \o l3
  OBVIOUS
<1>4. PICK c : c = b \o l4
  OBVIOUS
<1>5. PICK d : d = c \o l5
  OBVIOUS
<1>6. /\ l1 \in Seq(Int) /\ l2 \in Seq(Int) /\ l3 \in Seq(Int) /\ l4 \in Seq(Int) /\ l5 \in Seq(Int)
      /\ Len(l1) = 28 /\ Len(l2) = 18 /\ Len(l3) = 19 /\ Len(l4) = 18
  <2>1. ASSUME NEW line, NEW name, NEW value, IsLine(line, name, value)
        PROVE  line \in Seq(Int)
    BY <2>1, LineIsSpelt, Zenon DEF Spelt
  <2> QED
    BY <1>1, <2>1, FiveLines
<1>7. IsJoined(a, l1, l2) /\ a \in Seq(Int) /\ Len(a) = 46
  <2>1. IsJoined(a, l1, l2)
    BY <1>2, <1>6, HasJoined, Zenon
  <2> QED
    BY <1>6, <2>1 DEF IsJoined
<1>8. IsJoined(b, a, l3) /\ b \in Seq(Int) /\ Len(b) = 65
  <2>1. IsJoined(b, a, l3)
    BY <1>3, <1>6, <1>7, HasJoined, Zenon
  <2> QED
    BY <1>6, <1>7, <2>1 DEF IsJoined
<1>9. IsJoined(c, b, l4) /\ c \in Seq(Int) /\ Len(c) = 83
  <2>1. IsJoined(c, b, l4)
    BY <1>4, <1>6, <1>8, HasJoined, Zenon
  <2>2. c \in Seq(Int) /\ Len(c) = 65 + 18
    BY <1>6, <1>8, <2>1, Zenon DEF IsJoined
  <2> QED
    BY <2>1, <2>2
<1>10. IsJoined(d, c, l5)
  BY <1>5, <1>6, <1>9, HasJoined, Zenon
<1>11. /\ Has(a, 0, l1) /\ Has(a, 28, l2) /\ Has(b, 0, a) /\ Has(b, 46, l3) /\ Has(c, 0, b)
       /\ Has(c, 65, l4) /\ Has(d, 0, c) /\ Has(d, 83, l5)
  BY <1>6, <1>7, <1>8, <1>9, <1>10, Zenon DEF IsJoined
<1>13. Has(d, 0, b) /\ Has(d, 65, l4)
  BY <1>11, HasInFirst, Zenon
<1>14. Has(d, 0, a) /\ Has(d, 46, l3)
  BY <1>11, <1>13, HasInFirst, Zenon
<1>15. Has(d, 0, l1) /\ Has(d, 28, l2)
  BY <1>11, <1>14, HasInFirst, Zenon
<1>16. d = DefaultFile
  BY <1>1, <1>2, <1>3, <1>4, <1>5, Zenon DEF DefaultFile
<1>17. l5 = Line(Letters(5, 3), Device)
  BY <1>1 DEF DefaultLines
<1>18. Device \in Words /\ Len(Device) <= 24
  BY FiveLines
<1> QED
  BY <1>1, <1>11, <1>13, <1>14, <1>15, <1>16, <1>17, <1>18, Zenon DEF Whole

\* Where the lines of a whole file begin.
LEMMA LinesBegin ==
  ASSUME NEW file, NEW value, Whole(file, value)
  PROVE  /\ After(file, 0) = 0 /\ After(file, 1) = 28 /\ After(file, 2) = 46
         /\ After(file, 3) = 65 /\ After(file, 4) = 83
<1>1. /\ LineEnd(file, 0) = 28 /\ LineEnd(file, 28) = 46 /\ LineEnd(file, 46) = 65
      /\ LineEnd(file, 65) = 83
  <2>1. /\ LineEnd(file, 0) = 0 + Len(DefaultLines[1])
        /\ LineEnd(file, 28) = 28 + Len(DefaultLines[2])
        /\ LineEnd(file, 46) = 46 + Len(DefaultLines[3])
        /\ LineEnd(file, 65) = 65 + Len(DefaultLines[4])
    BY FiveLines, LineEnds, ZenonT(30) DEF Whole
  <2> QED
    BY <2>1, FiveLines
<1>2. ASSUME NEW k \in 0..4
      PROVE  After(file, k) = IF k = 0 THEN 0 ELSE IF k = 1 THEN 28 ELSE IF k = 2 THEN 46
                              ELSE IF k = 3 THEN 65 ELSE 83
  <2> DEFINE at == CHOOSE g : g = [i \in 0..k |-> IF i = 0 THEN 0 ELSE LineEnd(file, g[i - 1])]
             g0 == [i \in 0..k |-> IF i = 0 THEN 0 ELSE IF i = 1 THEN 28 ELSE IF i = 2 THEN 46
                                   ELSE IF i = 3 THEN 65 ELSE 83]
  <2>1. After(file, k) = at[k]
    BY Zenon DEF After
  <2>2. g0 = [i \in 0..k |-> IF i = 0 THEN 0 ELSE LineEnd(file, g0[i - 1])]
    BY <1>1
  <2>3. at = [i \in 0..k |-> IF i = 0 THEN 0 ELSE LineEnd(file, at[i - 1])]
    BY <2>2, Zenon
  <2> HIDE DEF at, g0
  <2>4. at[0] = 0
    BY <2>3
  <2>5. k >= 1 => at[1] = 28
    BY <1>1, <2>3, <2>4
  <2>6. k >= 2 => at[2] = 46
    BY <1>1, <2>3, <2>5
  <2>7. k >= 3 => at[3] = 65
    BY <1>1, <2>3, <2>6
  <2>8. k >= 4 => at[4] = 83
    BY <1>1, <2>3, <2>7
  <2> QED
    BY <2>1, <2>4, <2>5, <2>6, <2>7, <2>8
<1> QED
  BY <1>2

LEMMA LinesRead ==
  ASSUME NEW file, NEW value, Whole(file, value)
  PROVE  /\ \A n \in 1..4 : fgets(file, After(file, n - 1)) = DefaultLines[n]
         /\ fgets(file, 83) = Line(Letters(5, 3), value)
<1>1. /\ fgets(file, 0) = DefaultLines[1] /\ fgets(file, 28) = DefaultLines[2]
      /\ fgets(file, 46) = DefaultLines[3] /\ fgets(file, 65) = DefaultLines[4]
  BY FiveLines, LineIsRead, ZenonT(30) DEF Whole
<1>2. fgets(file, 83) = Line(Letters(5, 3), value)
  BY FifthLine, LineIsRead, Zenon DEF Whole
<1>3. ASSUME NEW n \in 1..4
      PROVE  fgets(file, After(file, n - 1)) = DefaultLines[n]
  <2>1. CASE n = 1
    BY <1>1, <2>1, LinesBegin
  <2>2. CASE n = 2
    BY <1>1, <2>2, LinesBegin
  <2>3. CASE n = 3
    BY <1>1, <2>3, LinesBegin
  <2>4. CASE n = 4
    BY <1>1, <2>4, LinesBegin
  <2> QED
    BY <2>1, <2>2, <2>3, <2>4
<1> QED
  BY <1>2, <1>3

\* The tabs of a line are behind its name and behind its value.
LEMMA TabsOfLine ==
  ASSUME NEW line, NEW name, NEW value, Spelt(line, name, value), NEW i \in 1..Len(line)
  PROVE  line[i] = 9 <=> i = Len(name) + 1 \/ i = Len(name) + Len(value) + 2
<1>1. /\ Len(name) \in Nat /\ Len(value) \in Nat /\ Len(line) = Len(name) + Len(value) + 4
      /\ line[Len(name) + 1] = 9 /\ line[Len(name) + Len(value) + 2] = 9
      /\ line[Len(name) + Len(value) + 3] = 13
      /\ line[Len(name) + Len(value) + 4] = 10
  BY Zenon DEF Spelt
<1>2. CASE i \in 1..Len(name)
  <2>1. line[i] # 9
    BY <1>2, Zenon DEF Spelt
  <2> QED
    BY <1>1, <1>2, <2>1
<1>3. CASE i \in Len(name) + 2..Len(name) + Len(value) + 1
  <2>1. PICK j : j = i - Len(name) - 1
    OBVIOUS
  <2>2. j \in 1..Len(value) /\ i = Len(name) + 1 + j
    BY <1>1, <1>3, <2>1
  <2>3. line[Len(name) + 1 + j] = value[j] /\ value[j] # 9
    BY <2>2, Zenon DEF Spelt
  <2> QED
    BY <1>1, <1>3, <2>2, <2>3
<1> QED
  BY <1>1, <1>2, <1>3

\* A part of a line, or of a file.
LEMMA PartIs ==
  ASSUME NEW line, NEW m, NEW word, Has(line, m, word), NEW from, NEW to,
         from = m + 1, to = m + Len(word)
  PROVE  SubSeq(line, from, to) = word
<1>1. /\ line \in Seq(Int) /\ word \in Seq(Int) /\ m \in Nat /\ Len(word) \in Nat
      /\ Len(line) \in Nat /\ m + Len(word) <= Len(line)
      /\ \A i \in 1..Len(word) : line[m + i] = word[i]
  BY SMTT(30) DEF Has
<1>2. PICK s : s = SubSeq(line, from, to)
  OBVIOUS
<1>3. ASSUME NEW i \in from..to
      PROVE  line[i] \in Int
  <2>1. i \in 1..Len(line)
    BY <1>1
  <2> QED
    BY <1>1, <2>1, ElementOfSeq, Zenon
<1>4. /\ from \in Int /\ to \in Int /\ to - from + 1 = Len(word)
      /\ (IF from <= to THEN to - from + 1 ELSE 0) = Len(word)
  BY <1>1
<1>5. s \in Seq(Int) /\ Len(s) = Len(word) /\ \A i \in 1..Len(word) : s[i] = line[from + i - 1]
  BY <1>2, <1>3, <1>4, SubSeqProperties, SMTT(30)
<1>6. ASSUME NEW i \in 1..Len(word)
      PROVE  s[i] = word[i]
  <2>1. from + i - 1 = m + i
    BY <1>1
  <2> QED
    BY <1>1, <1>5, <2>1
<1>7. s = word
  BY <1>1, <1>5, <1>6, SeqEqual
<1> QED
  BY <1>2, <1>7, Zenon

\* The name and the value as parts of their line.
LEMMA NameAndValue ==
  ASSUME NEW line, NEW name, NEW value, IsLine(line, name, value)
  PROVE  /\ Has(line, 0, name) /\ Has(line, Len(name) + 1, value)
         /\ Len(name) \in Nat /\ Len(value) \in Nat
<1>1. Spelt(line, name, value)
  BY LineIsSpelt
<1>2. name \in Seq(Int) /\ value \in Seq(Int)
  BY DEF IsLine, Words
<1> QED
  BY <1>1, <1>2, SMTT(30) DEF Spelt, Has

\* GetConfigArg gives the value.
LEMMA ArgumentRead ==
  ASSUME NEW file, NEW value, Whole(file, value)
  PROVE  GetConfigArg(file, 5) = value
<1>1. PICK l : l = Line(Letters(5, 3), value)
  OBVIOUS
<1>2. IsLine(l, Letters(5, 3), value)
  BY <1>1, FifthLine, Zenon DEF Whole
<1>3. Spelt(l, Letters(5, 3), value) /\ Len(Letters(5, 3)) = 3
  BY <1>2, LineIsSpelt, FiveNames
<1>4. PICK n : n = Len(value)
  OBVIOUS
<1>5. n \in Nat /\ Len(l) = n + 7 /\ Has(l, 4, value)
  <2>1. /\ Has(l, Len(Letters(5, 3)) + 1, value) /\ Len(value) \in Nat
        /\ Len(l) = Len(Letters(5, 3)) + Len(value) + 4
    BY <1>2, NameAndValue, LineLength
  <2>2. Has(l, 3 + 1, value) /\ Len(l) = 3 + n + 4
    BY <1>3, <1>4, <2>1, Zenon
  <2>3. 3 + 1 = 4 /\ n \in Nat /\ 3 + n + 4 = n + 7
    BY <1>4, <2>1
  <2> QED
    BY <2>2, <2>3
<1>6. PICK tabs : tabs = {i \in 1..Len(l) : l[i] = Tab}
  OBVIOUS
<1>7. tabs = {4, n + 5}
  <2>1. ASSUME NEW i \in 1..Len(l)
        PROVE  l[i] = 9 <=> i = 4 \/ i = n + 5
    <3>1. l[i] = 9 <=> i = Len(Letters(5, 3)) + 1 \/ i = Len(Letters(5, 3)) + Len(value) + 2
      BY <1>3, TabsOfLine
    <3>2. l[i] = 9 <=> i = 3 + 1 \/ i = 3 + n + 2
      BY <1>3, <1>4, <3>1, Zenon
    <3>3. 3 + 1 = 4 /\ 3 + n + 2 = n + 5
      BY <1>5
    <3> QED
      BY <3>2, <3>3, Zenon
  <2> QED
    BY <1>5, <1>6, <2>1 DEF Tab
<1>8. PICK first : first = CHOOSE i \in tabs : \A j \in tabs : i <= j
  OBVIOUS
<1>9. first = 4
  BY <1>5, <1>7, <1>8
<1>10. PICK second : second = CHOOSE i \in tabs \ {first} : \A j \in tabs \ {first} : i <= j
  OBVIOUS
<1>11. second = n + 5
  BY <1>5, <1>7, <1>9, <1>10
<1>12. fgets(file, After(file, 5 - 1)) = l
  <2>1. 5 - 1 = 4
    OBVIOUS
  <2>2. After(file, 4) = 83 /\ fgets(file, 83) = l
    BY <1>1, LinesBegin, LinesRead
  <2> QED
    BY <2>1, <2>2, Zenon
<1>13. GetConfigArg(file, 5) = SubSeq(l, first + 1, second - 1)
  BY <1>6, <1>8, <1>10, <1>12, Zenon DEF GetConfigArg
<1>14. first + 1 = 4 + 1 /\ second - 1 = 4 + Len(value)
  BY <1>4, <1>5, <1>9, <1>11
<1>15. PICK from, to : from = first + 1 /\ to = second - 1
  OBVIOUS
<1>16. SubSeq(l, from, to) = value
  BY <1>5, <1>14, <1>15, PartIs
<1> QED
  BY <1>13, <1>15, <1>16, Zenon

\* A line in the beginning of a file.
Fits(file, n, line, m) == m \in Nat /\ n + Len(line) <= m /\ m <= Len(file)
Begins(s, file, m) == s = SubSeq(file, 1, m)
HasIn(s, n, line, m) == Has(s, n, line) /\ s \in Seq(Int) /\ Len(s) = m

LEMMA HasInPrefix ==
  ASSUME NEW file, NEW n, NEW line, Has(file, n, line), NEW m, NEW s,
         Fits(file, n, line, m), Begins(s, file, m)
  PROVE  HasIn(s, n, line, m)
<1>0. m \in Nat /\ n + Len(line) <= m /\ m <= Len(file) /\ s = SubSeq(file, 1, m)
  BY Zenon DEF Fits, Begins
<1>1. /\ file \in Seq(Int) /\ line \in Seq(Int) /\ n \in Nat /\ Len(line) \in Nat /\ Len(file) \in Nat
      /\ \A i \in 1..Len(line) : file[n + i] = line[i]
  BY DEF Has
<1>3. ASSUME NEW i \in 1..m
      PROVE  file[i] \in Int
  <2>1. i \in 1..Len(file)
    BY <1>0, <1>1
  <2> QED
    BY <1>1, <2>1, ElementOfSeq, Zenon
<1>4. 1 \in Int /\ m \in Int /\ m - 1 + 1 = m /\ (IF 1 <= m THEN m - 1 + 1 ELSE 0) = m
  BY <1>0
<1>5. s \in Seq(Int) /\ Len(s) = m /\ \A i \in 1..m : s[i] = file[1 + i - 1]
  BY <1>0, <1>3, <1>4, SubSeqProperties
<1>6. ASSUME NEW i \in 1..Len(line)
      PROVE  s[n + i] = line[i]
  <2>1. PICK j : j = n + i
    OBVIOUS
  <2>2. j \in 1..m /\ 1 + j - 1 = j
    BY <1>0, <1>1, <2>1
  <2>3. s[j] = file[j]
    BY <1>5, <2>2
  <2> QED
    BY <1>1, <2>1, <2>3
<1> QED
  BY <1>0, <1>1, <1>5, <1>6 DEF Has, HasIn

\* Copied, in two parts.
CopyLine(old, value) ==
  Line(SubSeq(old, 1, (CHOOSE i \in 1..Len(old) : old[i] = Tab /\ \A j \in 1..(i - 1) : old[j] # Tab) - 1),
       value)
CopyAround(file, start, old, new) ==
  LET rest == SubSeq(file, start + Len(old) + 1, Len(file))
  IN  SubSeq(file, 1, start) \o new \o IF rest = <<>> THEN new ELSE rest

\* What ConfigModif copies is whole, with its value.
LEMMA CopyIsWhole ==
  ASSUME NEW file, NEW oldValue, Whole(file, oldValue), NEW value \in Words, Len(value) <= 24
  PROVE  Whole(Copied(file, 5, value), value)
<1>1. PICK o, l, name : o = Line(Letters(5, 3), oldValue) /\ l = Line(Letters(5, 3), value)
        /\ name = Letters(5, 3)
  OBVIOUS
<1>2. IsLine(o, name, oldValue) /\ IsLine(l, name, value) /\ Len(name) = 3
  BY <1>1, FifthLine, FiveNames DEF Whole
<1>3. Spelt(o, name, oldValue) /\ o \in Seq(Int) /\ l \in Seq(Int)
  <2>1. Spelt(o, name, oldValue) /\ Spelt(l, name, value)
    BY <1>2, LineIsSpelt
  <2> QED
    BY <2>1, Zenon DEF Spelt
<1>4. After(file, 5 - 1) = 83 /\ fgets(file, 83) = o
  <2>1. 5 - 1 = 4
    OBVIOUS
  <2>2. After(file, 4) = 83 /\ fgets(file, 83) = o
    BY <1>1, LinesBegin, LinesRead
  <2> QED
    BY <2>1, <2>2, Zenon
<1>5. PICK firstTab : firstTab = CHOOSE i \in 1..Len(o) : o[i] = Tab /\ \A j \in 1..(i - 1) : o[j] # Tab
  OBVIOUS
<1>6. firstTab = 4
  <2>1. Len(o) \in Nat /\ Len(o) >= 7 /\ Len(oldValue) \in Nat
    <3>1. Len(o) = Len(name) + Len(oldValue) + 4 /\ Len(oldValue) \in Nat
      BY <1>3, Zenon DEF Spelt
    <3> QED
      BY <1>2, <3>1
  <2>2. ASSUME NEW i \in 1..Len(o)
        PROVE  o[i] = 9 <=> i = 4 \/ i = 3 + Len(oldValue) + 2
    <3>1. o[i] = 9 <=> i = Len(name) + 1 \/ i = Len(name) + Len(oldValue) + 2
      BY <1>3, TabsOfLine
    <3>2. o[i] = 9 <=> i = 3 + 1 \/ i = 3 + Len(oldValue) + 2
      BY <1>2, <3>1, Zenon
    <3> QED
      BY <3>2
  <2>3. PICK m : m = Len(oldValue)
    OBVIOUS
  <2>4. \A i \in 1..Len(o) : o[i] = Tab <=> i = 4 \/ i = 3 + m + 2
    BY <2>2, <2>3, Zenon DEF Tab
  <2>5. m \in Nat /\ 4 \in 1..Len(o)
    BY <2>1, <2>3
  <2>6. o[4] = Tab /\ \A j \in 1..(4 - 1) : o[j] # Tab
    BY <2>1, <2>4, <2>5
  <2>7. ASSUME NEW i \in 1..Len(o), o[i] = Tab /\ \A j \in 1..(i - 1) : o[j] # Tab
        PROVE  i = 4
    BY <2>4, <2>5, <2>6, <2>7
  <2> QED
    BY <1>5, <2>5, <2>6, <2>7
<1>7. SubSeq(o, 1, firstTab - 1) = name
  <2>1. Has(o, 0, name)
    BY <1>2, NameAndValue
  <2>2. PICK to : to = firstTab - 1
    OBVIOUS
  <2>3. to = 0 + Len(name) /\ 1 = 0 + 1
    BY <1>2, <1>6, <2>2
  <2>4. SubSeq(o, 1, to) = name
    BY <2>1, <2>3, PartIs
  <2> QED
    BY <2>2, <2>4, Zenon
<1>8. fgets(l, 0) = l
  BY <1>2, <1>3, HasWhole, LineIsRead
<1>9. PICK rest : rest = SubSeq(file, 83 + Len(o) + 1, Len(file))
  OBVIOUS
<1>10. PICK x : x = IF rest = <<>> THEN l ELSE rest
  OBVIOUS
<1>11. PICK p : p = SubSeq(file, 1, 83)
  OBVIOUS
<1>12. PICK q : q = p \o l
  OBVIOUS
<1>13. Copied(file, 5, value) = q \o x
  <2>1. Copied(file, 5, value) =
          CopyAround(file, After(file, 5 - 1), fgets(file, After(file, 5 - 1)),
                     fgets(CopyLine(fgets(file, After(file, 5 - 1)), value), 0))
    BY Zenon DEF Copied, CopyAround, CopyLine
  <2>2. Copied(file, 5, value) = CopyAround(file, 83, o, fgets(CopyLine(o, value), 0))
    BY <1>4, <2>1, Zenon
  <2>3. CopyLine(o, value) = l
    BY <1>1, <1>5, <1>7, Zenon DEF CopyLine
  <2>4. Copied(file, 5, value) = CopyAround(file, 83, o, l)
    BY <1>8, <2>2, <2>3, Zenon
  <2> QED
    BY <1>9, <1>10, <1>11, <1>12, <2>4, Zenon DEF CopyAround
<1>14. Has(file, 83, o) /\ file \in Seq(Int) /\ Len(file) \in Nat /\ 83 <= Len(file)
  <2>1. Has(file, 83, o)
    BY <1>1, Zenon DEF Whole
  <2>2. Len(o) \in Nat
    BY <1>3
  <2> QED
    BY <2>1, <2>2 DEF Has
<1>15. x \in Seq(Int)
  <2>1. rest \in Seq(Int)
    <3>1. PICK from : from = 83 + Len(o) + 1
      OBVIOUS
    <3>2. from \in Int /\ from >= 1 /\ Len(file) \in Int
      <4>1. Len(o) \in Nat
        BY <1>3
      <4> QED
        BY <1>14, <3>1, <4>1
    <3>3. ASSUME NEW i \in from..Len(file)
          PROVE  file[i] \in Int
      <4>1. i \in 1..Len(file)
        BY <3>2
      <4> QED
        BY <1>14, <4>1, ElementOfSeq, Zenon
    <3> QED
      BY <1>9, <3>1, <3>2, <3>3, SubSeqProperties
  <2> QED
    BY <1>3, <1>10, <2>1
<1>16. /\ Has(p, 0, DefaultLines[1]) /\ Has(p, 28, DefaultLines[2])
       /\ Has(p, 46, DefaultLines[3]) /\ Has(p, 65, DefaultLines[4])
       /\ p \in Seq(Int) /\ Len(p) = 83
  <2>1. /\ Has(file, 0, DefaultLines[1]) /\ Has(file, 28, DefaultLines[2])
        /\ Has(file, 46, DefaultLines[3]) /\ Has(file, 65, DefaultLines[4])
    BY Zenon DEF Whole
  <2>2. /\ Fits(file, 0, DefaultLines[1], 83) /\ Fits(file, 28, DefaultLines[2], 83)
        /\ Fits(file, 46, DefaultLines[3], 83) /\ Fits(file, 65, DefaultLines[4], 83)
    BY <1>14, FiveLines DEF Fits
  <2>3. Begins(p, file, 83)
    BY <1>11, Zenon DEF Begins
  <2>4. /\ HasIn(p, 0, DefaultLines[1], 83) /\ HasIn(p, 28, DefaultLines[2], 83)
        /\ HasIn(p, 46, DefaultLines[3], 83) /\ HasIn(p, 65, DefaultLines[4], 83)
    BY <2>1, <2>2, <2>3, HasInPrefix
  <2> QED
    BY <2>4, Zenon DEF HasIn
<1>17. IsJoined(q, p, l)
  BY <1>3, <1>12, <1>16, HasJoined, Zenon
<1>18. q \in Seq(Int) /\ Has(q, 0, p) /\ Has(q, 83, l)
  BY <1>16, <1>17, Zenon DEF IsJoined
<1>19. PICK c : c = q \o x
  OBVIOUS
<1>20. Has(c, 0, q)
  <2>1. IsJoined(c, q, x)
    BY <1>15, <1>18, <1>19, HasJoined, Zenon
  <2> QED
    BY <2>1, Zenon DEF IsJoined
<1>21. Has(c, 83, l) /\ Has(c, 0, p)
  BY <1>18, <1>20, HasInFirst, Zenon
<1>22. /\ Has(c, 0, DefaultLines[1]) /\ Has(c, 28, DefaultLines[2])
       /\ Has(c, 46, DefaultLines[3]) /\ Has(c, 65, DefaultLines[4])
  BY <1>16, <1>21, HasInFirst
<1>23. Whole(c, value)
  BY <1>1, <1>21, <1>22, Zenon DEF Whole
<1> QED
  BY <1>13, <1>19, <1>23, Zenon

\* What the file is at each place of the program.
ProfileInv ==
  /\ ProfileTypeOK
  /\ cpc = "check" => config \in {NoFile, <<>>} \/ \E v \in may : Whole(config, v)
  /\ cpc \in {"default", "close"} => config = <<>>
  /\ cpc = "create" => config = NoFile
  /\ cpc \in {"get", "run", "remove"} => \E v \in may : Whole(config, v)
  /\ cpc \in {"remove", "create", "close"} => Whole(ftemp, con)
  /\ cpc = "run" => got \in may

\* Values that fit into a line of the file.
ShortValues == {v \in Words : Len(v) <= 24}

LEMMA ProfileStep ==
  ASSUME Values \subseteq ShortValues, ProfileInv, [ProfileNext]_profileVars
  PROVE  ProfileInv'
<1>1. CASE FileCheck
  BY <1>1 DEF FileCheck, ProfileInv, ProfileTypeOK, Whole
<1>2. CASE DefaultConfigSet
  <2>1. config' = DefaultFile /\ may' = {Device} /\ cpc' = "get"
    <3>1. config = <<>>
      BY <1>2 DEF DefaultConfigSet, ProfileInv
    <3>2. DefaultFile \in Seq(Int)
      BY DefaultIsWhole DEF Whole, Has
    <3>3. <<>> \o DefaultFile = DefaultFile
      BY <3>2, ConcatEmptySeq
    <3> QED
      BY <1>2, <3>1, <3>3, Zenon DEF DefaultConfigSet
  <2> QED
    BY <1>2, <2>1, DefaultIsWhole DEF ProfileInv, ProfileTypeOK, Whole
<1>3. CASE Get
  <2>1. PICK v \in may : Whole(config, v)
    BY <1>3 DEF Get, ProfileInv
  <2>2. got' = v
    BY <1>3, <2>1, ArgumentRead, Zenon DEF Get
  <2>3. v \in may
    BY <2>1
  <2> QED
    BY <1>3, <2>1, <2>2, <2>3 DEF Get, ProfileInv, ProfileTypeOK, Whole
<1>4. CASE Modif
  <2>1. PICK v \in Values : con' = v /\ ftemp' = Copied(config, 5, v)
    BY <1>4, Zenon DEF Modif
  <2>2. v \in Words /\ Len(v) <= 24
    BY <2>1 DEF ShortValues
  <2>3. PICK w \in may : Whole(config, w)
    BY <1>4 DEF Modif, ProfileInv
  <2>4. Whole(ftemp', con')
    BY <2>1, <2>2, <2>3, CopyIsWhole, Zenon
  <2>5. cpc' = "remove" /\ UNCHANGED <<config, may, got>>
    BY <1>4 DEF Modif
  <2> QED
    BY <2>3, <2>4, <2>5 DEF ProfileInv, ProfileTypeOK, Whole
<1>5. CASE RemoveOld
  BY <1>5 DEF RemoveOld, ProfileInv, ProfileTypeOK, Whole
<1>6. CASE CreateNew
  BY <1>6 DEF CreateNew, ProfileInv, ProfileTypeOK, Whole
<1>7. CASE CloseNew
  BY <1>7 DEF CloseNew, ProfileInv, ProfileTypeOK, Whole
<1>8. CASE Crash
  BY <1>8 DEF Crash, ProfileInv, ProfileTypeOK, Whole
<1>9. CASE UNCHANGED profileVars
  BY <1>9 DEF profileVars, ProfileInv, ProfileTypeOK, Whole
<1> QED
  BY <1>1, <1>2, <1>3, <1>4, <1>5, <1>6, <1>7, <1>8, <1>9 DEF ProfileNext

\* Whatever is set and wherever the program ends, a start reads a value that was set
\* completely, and the other lines stay (profile.c:24-127).
THEOREM ProfileIsWhole ==
  ASSUME Values \subseteq ShortValues
  PROVE  ProfileSpec => [](ProfileTypeOK /\ ArgumentIsWhole /\ OtherLinesKept)
<1>1. ProfileInit => ProfileInv
  BY DEF ProfileInit, ProfileInv, ProfileTypeOK
<1>2. ProfileInv /\ [ProfileNext]_profileVars => ProfileInv'
  BY ProfileStep
<1>3. ProfileInv => ProfileTypeOK /\ ArgumentIsWhole /\ OtherLinesKept
  <2> SUFFICES ASSUME ProfileInv PROVE ArgumentIsWhole /\ OtherLinesKept
    BY DEF ProfileInv
  <2>1. ArgumentIsWhole
    BY DEF ProfileInv, ArgumentIsWhole
  <2>2. OtherLinesKept
    <3> SUFFICES ASSUME cpc = "run"
                 PROVE  \A n \in 1..4 : fgets(config, After(config, n - 1)) = DefaultLines[n]
      BY Zenon DEF OtherLinesKept
    <3>1. PICK v \in may : Whole(config, v)
      BY DEF ProfileInv
    <3> QED
      BY <3>1, LinesRead, Zenon
  <2> QED
    BY <2>1, <2>2
<1> QED
  BY <1>1, <1>2, <1>3, PTL DEF ProfileSpec

\* After every step of the programs that rewrite the two files: a line of the start script
\* is as it was or names the event, and one of two is lost only when the seds ran beside
\* each other; what one ConfigModif wrote is not cut by what came after (ev_set.c:120-243,
\* profile.c:24-127).
THEOREM FilesStayWhole ==
  ASSUME Numbers \subseteq Nat, Values \subseteq ShortValues
  PROVE  FilesSpec => []FilesAreWhole
<1>1. FilesAreWhole <=> /\ EvTypeOK /\ LinesChanged /\ PathsAreTheirs
                        /\ ProfileTypeOK /\ ArgumentIsWhole /\ OtherLinesKept
  BY DEF FilesAreWhole
<1>2. EvSpec => [](EvTypeOK /\ LinesChanged /\ PathsAreTheirs)
  BY ScriptGetsPaths
<1>3. ProfileSpec => [](ProfileTypeOK /\ ArgumentIsWhole /\ OtherLinesKept)
  BY ProfileIsWhole
<1> QED
  BY <1>1, <1>2, <1>3, PTL DEF FilesSpec

-----------------------------------------------------------------------------
(* KeyBoard: the shift registers                                            *)

\* The two boards; numbers and keys are bytes.
KeysAndBytes ==
  /\ Keys \in {8, 24} /\ Code \subseteq 0..15 /\ Other \in 0..15 /\ Asked \subseteq 0..255 \ {250}
  /\ Moves \subseteq 0..Keys - 1

\* The output of each key: that of the bit in the table.
Output24 == <<0, 7, 6, 5, 4, 3, 2, 1, 15, 14, 13, 12, 11, 10, 9, 8, 22, 23, 21, 20, 17, 18, 19, 16>>
OutputOf(k) == IF Keys = 24 THEN Output24[k + 1] ELSE 7 - k

\* 2^n, of which the provers know no more than these values.
TwoTo(n) == 2^n

LEMMA PowersOfTwo ==
  /\ TwoTo(0) = 1 /\ TwoTo(1) = 2 /\ TwoTo(2) = 4 /\ TwoTo(3) = 8
  /\ TwoTo(4) = 16 /\ TwoTo(5) = 32 /\ TwoTo(6) = 64 /\ TwoTo(7) = 128
  /\ TwoTo(8) = 256 /\ TwoTo(9) = 512 /\ TwoTo(10) = 1024 /\ TwoTo(11) = 2048
  /\ TwoTo(12) = 4096 /\ TwoTo(13) = 8192 /\ TwoTo(14) = 16384 /\ TwoTo(15) = 32768
  /\ TwoTo(16) = 65536 /\ TwoTo(17) = 131072 /\ TwoTo(18) = 262144 /\ TwoTo(19) = 524288
  /\ TwoTo(20) = 1048576 /\ TwoTo(21) = 2097152 /\ TwoTo(22) = 4194304 /\ TwoTo(23) = 8388608
BY DEF TwoTo

LEMMA TableOfBits ==
  ASSUME KeysAndBytes, NEW k \in Locks!Key
  PROVE  OutputOf(k) \in 0..23 /\ Locks!bit(k) = TwoTo(OutputOf(k))
<1>1. CASE Keys = 24
  <2>1. k \in 0..23
    BY <1>1 DEF Locks!Key
  <2>2. \A j \in 0..23 : Output24[j + 1] \in 0..23 /\ Locks!Board24[j + 1] = TwoTo(Output24[j + 1])
    BY PowersOfTwo DEF Output24, Locks!Board24
  <2> QED
    BY <1>1, <2>1, <2>2 DEF OutputOf, Locks!bit
<1>2. CASE Keys = 8
  <2>1. k \in 0..7
    BY <1>2 DEF Locks!Key
  <2>2. 7 - k \in 0..7 /\ Locks!Board8[k + 1] = TwoTo(7 - k)
    BY <2>1, PowersOfTwo DEF Locks!Board8
  <2> QED
    BY <1>2, <2>1, <2>2 DEF OutputOf, Locks!bit
<1> QED
  BY <1>1, <1>2 DEF KeysAndBytes

LEMMA OutputsDiffer ==
  ASSUME KeysAndBytes, NEW j \in Locks!Key, NEW k \in Locks!Key, OutputOf(j) = OutputOf(k)
  PROVE  j = k
BY DEF KeysAndBytes, OutputOf, Output24, Locks!Key

LEMMA PowersDiffer ==
  ASSUME NEW m \in 0..23, NEW n \in 0..23
  PROVE  /\ (TwoTo(m) \div TwoTo(n)) % 2 = IF m = n THEN 1 ELSE 0
         /\ TwoTo(m) = TwoTo(n) => m = n
         /\ (0 \div TwoTo(n)) % 2 = 0
<1>1. (TwoTo(m) \div TwoTo(n)) % 2 = IF m = n THEN 1 ELSE 0
  BY PowersOfTwo
<1>2. TwoTo(m) = TwoTo(n) => m = n
  BY PowersOfTwo
<1>3. (0 \div TwoTo(n)) % 2 = 0
  BY PowersOfTwo
<1> QED
  BY <1>1, <1>2, <1>3

LEMMA OutputIsBit ==
  ASSUME NEW d, NEW n \in 0..23
  PROVE  Locks!Send595(d)[n] = (d \div TwoTo(n)) % 2
<1> DEFINE clocked == [i \in 1..25 |-> IF i = 1 THEN 0 ELSE (d \div 2^(25 - i)) % 2]
<1>1. 25 - n \in 1..25 /\ 25 - n # 1 /\ 25 - (25 - n) = n
  OBVIOUS
<1>2. clocked[25 - n] = (d \div 2^(25 - (25 - n))) % 2
  BY <1>1
<1>3. Locks!Send595(d) = [m \in 0..23 |-> clocked[25 - m]]
  BY DEF Locks!Send595
<1>4. Locks!Send595(d)[n] = clocked[25 - n]
  BY <1>3
<1> QED
  BY <1>1, <1>2, <1>4 DEF TwoTo

\* Is the lock of key k open, when the registers' outputs are these?
OpenAt(outputs, k) == \E n \in 0..23 : Locks!bit(k) = 2^n /\ outputs[n] = 1

LEMMA OnlyThisOpens ==
  ASSUME KeysAndBytes, NEW j \in Locks!Key, NEW k \in Locks!Key
  PROVE  /\ OpenAt(Locks!Send595(Locks!bit(j)), k) <=> k = j
         /\ ~OpenAt(Locks!Send595(0), k)
<1>1. PICK m \in 0..23 : m = OutputOf(j) /\ Locks!bit(j) = TwoTo(m)
  BY TableOfBits
<1>2. PICK p \in 0..23 : p = OutputOf(k) /\ Locks!bit(k) = TwoTo(p)
  BY TableOfBits
<1>3. \A n \in 0..23 : Locks!bit(k) = 2^n <=> n = p
  BY <1>2, PowersDiffer DEF TwoTo
<1>4. /\ Locks!Send595(Locks!bit(j))[p] = IF m = p THEN 1 ELSE 0
      /\ Locks!Send595(0)[p] = 0
  BY <1>1, OutputIsBit, PowersDiffer
<1>5. m = p <=> k = j
  BY <1>1, <1>2, OutputsDiffer
<1> QED
  BY <1>3, <1>4, <1>5 DEF OpenAt

-----------------------------------------------------------------------------
(* KeyBoard: frames                                                         *)

KeyTypes ==
  /\ encode \in 0..15
  /\ keyBuf \in [0..15 -> 0..255] /\ U0Count \in 0..15 /\ wire \in Seq(0..255)
  /\ level \in [Locks!Key -> {0, 1}] /\ key_stat \in [Locks!Key -> {0, 1}]
  /\ saw \in [Locks!Key -> {0, 1}] /\ scans \in 0..2

\* The head of a command is the fifth byte from the end, and no other byte.
HeadsOnWire == \A i \in 1..Len(wire) : wire[i] = \hFA => Len(wire) = i + 4

\* Behind a head in the buffer comes the rest of its command, so one that is not complete
\* is not taken.
RestComes ==
  held # "lapped" /\ U0Count \in 1..4 /\ keyBuf[0] = \hFA =>
    Len(wire) = 5 - U0Count /\ (keyReady => kpc = "ready")

\* What the main loop saw in the buffer is still there.
SeenInBuffer ==
  held # "lapped" =>
    /\ kpc = "ends" /\ keyBuf[0] = \hFA => keyBuf[1] = encode
    /\ kpc \in {"cmd", "key", "open", "beep", "answer", "state"} =>
         keyBuf[0] = \hFA /\ keyBuf[1] = encode /\ keyBuf[4] = \hFF
    /\ kpc \in {"key", "open", "beep", "answer"} => keyBuf[2] = 1
    /\ kpc \in {"open", "beep", "answer"} => keyBuf[3] = keyBit

\* It has a frame until it clears U0Ready.
FrameInHand ==
  /\ kpc \in {"ends", "cmd", "key", "open", "beep", "answer", "state", "clear", "ready"} => keyReady
  /\ kpc \in {"open", "beep", "answer"} => keyBit \in Locks!Key

FramesInv == HeadsOnWire /\ RestComes /\ SeenInBuffer /\ FrameInHand

\* A key that is in shows as in.  Every scan is right on the small board, and on the big one
\* from the second after the columns were pulled low; the one after an opening is the
\* second when the next frame is looked at.
ScansInv ==
  /\ \A k \in Locks!Key : key_stat[k] <= saw[k]
  /\ Keys = 8 \/ scans = 2 => key_stat = saw
  /\ kpc = "answer" => scans = 1
  /\ answer[1] = \hFB =>
       /\ kpc \notin {"boot", "test"}
       /\ IF kpc \in {"answer", "clear", "ready"} THEN scans # 0 ELSE scans = 2

KeyInv == KeyTypes /\ FramesInv /\ ScansInv

LEMMA KeyStart == Locks!KeyInit => KeyInv
BY DEF Locks!KeyInit, KeyInv, KeyTypes, FramesInv, HeadsOnWire, RestComes, SeenInBuffer, FrameInHand,
  ScansInv, Locks!MAX_R_LEN

\* A scan.
LEMMA ScanIsRight ==
  ASSUME KeysAndBytes, KeyTypes, NEW before \in 0..2, Locks!KeyScan(before)
  PROVE  /\ key_stat' \in [Locks!Key -> {0, 1}] /\ saw' \in [Locks!Key -> {0, 1}]
         /\ \A k \in Locks!Key : key_stat'[k] <= saw'[k]
         /\ Keys = 8 \/ before # 0 => key_stat' = saw'
         /\ scans' = IF before = 0 THEN 1 ELSE 2
<1>1. \A k \in Locks!Key : level[k] \in {0, 1}
  BY DEF KeyTypes
<1>2. \A low \in BOOLEAN, k \in Locks!Key :
        /\ Locks!Seen(low, k) \in {0, 1} /\ Locks!Seen(low, k) <= level[k]
        /\ (Keys = 8 \/ ~low) => Locks!Seen(low, k) = level[k]
  <2> SUFFICES ASSUME NEW low \in BOOLEAN, NEW k \in Locks!Key
               PROVE  /\ Locks!Seen(low, k) \in {0, 1} /\ Locks!Seen(low, k) <= level[k]
                      /\ (Keys = 8 \/ ~low) => Locks!Seen(low, k) = level[k]
    OBVIOUS
  <2>1. Locks!Seen(low, k) = level[k] \/ (Locks!Seen(low, k) = 0 /\ low /\ Keys = 24)
    BY DEF Locks!Seen
  <2> QED
    BY <1>1, <2>1
<1>3. /\ key_stat' = [k \in Locks!Key |-> Locks!Seen(before = 0, k)] /\ saw' = level
      /\ scans' = IF before = 0 THEN 1 ELSE 2
  BY DEF Locks!KeyScan
<1>4. \A k \in Locks!Key :
        /\ key_stat'[k] \in {0, 1} /\ key_stat'[k] <= level[k]
        /\ (Keys = 8 \/ before # 0) => key_stat'[k] = level[k]
  BY <1>2, <1>3
<1>5. key_stat' \in [Locks!Key -> {0, 1}] /\ level \in [Locks!Key -> {0, 1}]
  BY <1>3, <1>4 DEF KeyTypes
<1>6. Keys = 8 \/ before # 0 => key_stat' = level
  BY <1>4, <1>5
<1> QED
  BY <1>3, <1>4, <1>5, <1>6

\* A frame of the host or of another board.
IsFrame(f) ==
  /\ f \in Seq(0..255) /\ \A i \in 1..Len(f) : f[i] = \hFA => Len(f) = i + 4

LEMMA FramesSaid ==
  ASSUME KeysAndBytes, KeyInv
  PROVE  /\ \A code \in {encode, Other}, cmd \in 1..3, k \in Asked \cup {0} :
              IsFrame(<<\hFA, code, cmd, k, \hFF>>)
         /\ IsFrame(<<\hFB, Other, 1, 0, 1, \hFF>>)
<1>1. encode \in 0..15 /\ Other \in 0..15 /\ \A k \in Asked \cup {0} : k \in 0..255 /\ k # \hFA
  BY DEF KeyInv, KeyTypes, KeysAndBytes
<1>2. ASSUME NEW code \in {encode, Other}, NEW cmd \in 1..3, NEW k \in Asked \cup {0}
      PROVE  IsFrame(<<\hFA, code, cmd, k, \hFF>>)
  <2>1. code \in 0..15 /\ k \in 0..255 /\ k # \hFA
    BY <1>1
  <2> QED
    BY <2>1 DEF IsFrame
<1>3. IsFrame(<<\hFB, Other, 1, 0, 1, \hFF>>)
  BY <1>1 DEF IsFrame
<1> QED
  BY <1>2, <1>3, Zenon

LEMMA SaysKeeps ==
  ASSUME KeysAndBytes, KeyInv, NEW f, NEW asks, IsFrame(f), Locks!Says(f, asks)
  PROVE  KeyInv'
<1>1. /\ wire = <<>> /\ wire' = f
      /\ UNCHANGED <<kpc, encode, keyReady, U0Count, keyBuf, level, scans, key_stat, saw, keyBit, answer,
                     held>>
  BY DEF Locks!Says
<1>2. RestComes'
  <2>1. Len(wire) = 0
    BY <1>1
  <2>2. ~(held # "lapped" /\ U0Count \in 1..4 /\ keyBuf[0] = \hFA)
    BY <2>1 DEF KeyInv, FramesInv, RestComes
  <2> QED
    BY <1>1, <2>2 DEF RestComes
<1>3. HeadsOnWire' /\ SeenInBuffer' /\ FrameInHand'
  BY <1>1 DEF HeadsOnWire, IsFrame, KeyInv, FramesInv, SeenInBuffer, FrameInHand
<1>4. KeyTypes' /\ ScansInv'
  BY <1>1 DEF IsFrame, KeyInv, KeyTypes, ScansInv
<1> QED
  BY <1>2, <1>3, <1>4 DEF KeyInv, FramesInv

\* The host, the other boards and the keys.
LEMMA OutsideKeeps ==
  ASSUME KeysAndBytes, KeyInv
  PROVE  /\ \A code \in {encode, Other}, k \in Asked : Locks!HostAsks(code, 1, k) => KeyInv'
         /\ Locks!HostAsks(encode, 2, 0) \/ Locks!HostAsks(encode, 3, 0) => KeyInv'
         /\ Locks!OtherAnswers => KeyInv'
         /\ \A k \in Moves : Locks!KeyMoves(k) => KeyInv'
<1>1. ASSUME NEW code \in {encode, Other}, NEW cmd \in 1..3, NEW k \in Asked \cup {0},
             Locks!HostAsks(code, cmd, k)
      PROVE  KeyInv'
  <2>1. PICK asks : Locks!Says(<<\hFA, code, cmd, k, \hFF>>, asks)
    BY <1>1 DEF Locks!HostAsks
  <2> QED
    BY <2>1, FramesSaid, SaysKeeps
<1>2. Locks!OtherAnswers => KeyInv'
  BY FramesSaid, SaysKeeps DEF Locks!OtherAnswers
<1>3. ASSUME NEW k \in Moves, Locks!KeyMoves(k) PROVE KeyInv'
  <2>1. k \in Locks!Key /\ level[k] \in {0, 1} /\ 1 - level[k] \in {0, 1}
    BY DEF KeysAndBytes, Locks!Key, KeyInv, KeyTypes
  <2>2. /\ level' = [level EXCEPT ![k] = 1 - level[k]]
        /\ UNCHANGED <<kpc, encode, keyReady, U0Count, keyBuf, scans, key_stat, saw, keyBit, answer,
                       wire, held>>
    BY <1>3 DEF Locks!KeyMoves
  <2>3. level' \in [Locks!Key -> {0, 1}]
    BY <2>1, <2>2 DEF KeyInv, KeyTypes
  <2> QED
    BY <2>2, <2>3 DEF KeyInv, KeyTypes, FramesInv, HeadsOnWire, RestComes, SeenInBuffer, FrameInHand,
      ScansInv
<1> QED
  BY <1>1, <1>2, <1>3

\* The two interrupts.
LEMMA InterruptsKeep ==
  ASSUME KeysAndBytes, KeyInv, Locks!KeyInterrupt
  PROVE  KeyInv'
<1>1. CASE Locks!ByteArrives
  <2>1. /\ keyBuf \in [0..15 -> 0..255] /\ U0Count \in 0..15 /\ wire \in Seq(0..255) /\ wire # <<>>
        /\ wire' = Tail(wire) /\ U0Count' = (U0Count + 1) % 16
        /\ keyBuf' = [keyBuf EXCEPT ![U0Count] = Head(wire)]
        /\ held' = IF U0Count > 0 THEN held ELSE IF keyReady /\ kpc # "ready" THEN "lapped" ELSE "frame"
        /\ UNCHANGED <<kpc, encode, keyReady, level, scans, key_stat, saw, keyBit, answer>>
    BY <1>1 DEF Locks!ByteArrives, Locks!MAX_R_LEN, KeyInv, KeyTypes
  <2>2. /\ Len(wire) > 0 /\ Len(wire') = Len(wire) - 1 /\ wire' \in Seq(0..255) /\ wire[1] \in 0..255
        /\ Head(wire) = wire[1] /\ \A i \in 1..Len(wire') : wire'[i] = wire[i + 1]
    <3>1. wire \in Seq(0..255) /\ wire # <<>> /\ wire' = Tail(wire)
      BY <2>1
    <3>2. Len(wire) \in Nat /\ Len(wire) # 0 /\ Head(wire) = wire[1]
      BY <3>1
    <3>3. 1 \in 1..Len(wire)
      BY <3>2
    <3>4. wire[1] \in 0..255
      BY <3>1, <3>3, ElementOfSeq, Zenon
    <3>5. Len(wire') = Len(wire) - 1 /\ wire' \in Seq(0..255)
      BY <3>1
    <3> QED
      BY <3>1, <3>2, <3>4, <3>5
  <2>3. keyBuf' \in [0..15 -> 0..255] /\ U0Count' \in 0..15
    <3>1. /\ keyBuf \in [0..15 -> 0..255] /\ U0Count \in 0..15 /\ Head(wire) \in 0..255
          /\ keyBuf' = [keyBuf EXCEPT ![U0Count] = Head(wire)] /\ U0Count' = (U0Count + 1) % 16
      BY <2>1, <2>2
    <3> QED
      BY <3>1
  <2>4. KeyTypes' /\ ScansInv' /\ FrameInHand'
    BY <2>1, <2>2, <2>3 DEF KeyInv, KeyTypes, ScansInv, FramesInv, FrameInHand
  <2>5. HeadsOnWire'
    <3> SUFFICES ASSUME NEW i \in 1..Len(wire'), wire'[i] = \hFA PROVE Len(wire') = i + 4
      BY DEF HeadsOnWire
    <3>1. i + 1 \in 1..Len(wire) /\ wire[i + 1] = \hFA
      BY <2>2
    <3>2. Len(wire) = (i + 1) + 4
      BY <3>1 DEF KeyInv, FramesInv, HeadsOnWire
    <3> QED
      BY <2>2, <3>2
  <2>6. CASE U0Count = 0
    <3>1. U0Count' = 1 /\ keyBuf'[0] = wire[1]
      BY <2>1, <2>2, <2>6
    <3>2. RestComes'
      <4>1. kpc' = kpc /\ keyReady' = keyReady /\ (held' # "lapped" /\ keyReady => kpc = "ready")
        BY <2>1, <2>6
      <4>2. wire[1] = \hFA => Len(wire) = 1 + 4
        BY <2>2 DEF KeyInv, FramesInv, HeadsOnWire
      <4>3. Len(wire') = Len(wire) - 1
        BY <2>2
      <4>4. keyBuf'[0] = \hFA => Len(wire') = 5 - U0Count'
        BY <3>1, <4>2, <4>3
      <4> QED
        BY <4>1, <4>4 DEF RestComes
    <3>3. SeenInBuffer'
      <4>1. kpc \in {"ends", "cmd", "key", "open", "beep", "answer", "state"} => held' = "lapped"
        BY <2>1, <2>6 DEF KeyInv, FramesInv, FrameInHand
      <4> QED
        BY <2>1, <4>1 DEF SeenInBuffer
    <3> QED
      BY <2>4, <2>5, <3>2, <3>3 DEF KeyInv, FramesInv
  <2>7. CASE U0Count > 0
    <3>1. held' = held /\ keyBuf'[0] = keyBuf[0]
      <4>1. held' = IF U0Count > 0 THEN held ELSE IF keyReady /\ kpc # "ready" THEN "lapped" ELSE "frame"
        BY <2>1
      <4>2. /\ keyBuf \in [0..15 -> 0..255] /\ U0Count \in 0..15
            /\ keyBuf' = [keyBuf EXCEPT ![U0Count] = Head(wire)]
        BY <2>1
      <4>3. keyBuf'[0] = keyBuf[0]
        BY <2>7, <4>2
      <4> QED
        BY <2>7, <4>1, <4>3
    <3>2. RestComes'
      <4> SUFFICES ASSUME held # "lapped", U0Count' \in 1..4, keyBuf[0] = \hFA
                   PROVE  Len(wire') = 5 - U0Count' /\ (keyReady => kpc = "ready")
        BY <2>1, <3>1 DEF RestComes
      <4>1. U0Count \in 1..3 /\ U0Count' = U0Count + 1
        <5>1. U0Count' = (U0Count + 1) % 16 /\ U0Count \in 0..15
          BY <2>1
        <5> QED
          BY <2>7, <5>1
      <4>2. Len(wire) = 5 - U0Count /\ (keyReady => kpc = "ready")
        BY <4>1 DEF KeyInv, FramesInv, RestComes
      <4> QED
        BY <2>2, <4>1, <4>2
    <3>3. SeenInBuffer'
      <4> SUFFICES ASSUME held # "lapped", keyReady, kpc # "ready" PROVE SeenInBuffer'
        BY <2>1, <3>1 DEF SeenInBuffer, KeyInv, FramesInv, FrameInHand
      <4>1. keyBuf[0] = \hFA => U0Count \notin 1..4
        BY DEF KeyInv, FramesInv, RestComes
      <4>2. keyBuf[0] = \hFA => \A i \in 1..4 : keyBuf'[i] = keyBuf[i]
        BY <2>1, <4>1
      <4> QED
        BY <2>1, <3>1, <4>2 DEF SeenInBuffer, KeyInv, FramesInv
    <3> QED
      BY <2>4, <2>5, <3>2, <3>3 DEF KeyInv, FramesInv
  <2> QED
    BY <2>1, <2>6, <2>7
<1>2. CASE Locks!FrameEnds
  <2>1. /\ wire = <<>> /\ (kpc = "ready" => U0Count = 0) /\ keyReady'
        /\ UNCHANGED <<kpc, encode, U0Count, keyBuf, level, scans, key_stat, saw, keyBit, answer, wire,
                       held>>
    BY <1>2 DEF Locks!FrameEnds, Locks!busVars
  <2>2. RestComes'
    <3>1. Len(wire) = 0
      BY <2>1
    <3>2. ~(held # "lapped" /\ U0Count \in 1..4 /\ keyBuf[0] = \hFA)
      BY <3>1 DEF KeyInv, FramesInv, RestComes
    <3> QED
      BY <2>1, <3>2 DEF RestComes
  <2> QED
    BY <2>1, <2>2 DEF KeyInv, KeyTypes, ScansInv, FramesInv, HeadsOnWire, SeenInBuffer, FrameInHand
<1> QED
  BY <1>1, <1>2 DEF Locks!KeyInterrupt

\* The main loop before a frame is there.
LEMMA IdleKeeps ==
  ASSUME KeysAndBytes, KeyInv, Locks!Boot \/ Locks!SelfTest \/ Locks!Idle
  PROVE  KeyInv'
<1> USE DEF KeyInv, FramesInv
<1>1. CASE Locks!Boot
  BY <1>1 DEF Locks!Boot, Locks!busVars, KeyTypes, KeysAndBytes, HeadsOnWire, RestComes, SeenInBuffer,
    FrameInHand, ScansInv
<1>2. CASE Locks!SelfTest
  BY <1>2 DEF Locks!SelfTest, Locks!busVars, KeyTypes, HeadsOnWire, RestComes, SeenInBuffer,
    FrameInHand, ScansInv
<1>3. CASE Locks!Idle
  <2>1. /\ kpc = "top" /\ Locks!KeyScan(scans) /\ scans \in 0..2
        /\ UNCHANGED <<kpc, encode, keyReady, U0Count, keyBuf, level, keyBit, answer, wire, held>>
    BY <1>3 DEF Locks!Idle, Locks!busVars, KeyTypes
  <2>2. KeyTypes' /\ ScansInv'
    BY <2>1, ScanIsRight DEF KeyTypes, ScansInv
  <2> QED
    BY <2>1, <2>2 DEF HeadsOnWire, RestComes, SeenInBuffer, FrameInHand
<1> QED
  BY <1>1, <1>2, <1>3

\* With a frame.
LEMMA FrameKeeps ==
  ASSUME KeysAndBytes, KeyInv,
         \/ Locks!TakeFrame \/ Locks!TakeKey \/ Locks!Open \/ Locks!Release \/ Locks!Answer
         \/ Locks!AnswerState \/ Locks!ClearCount \/ Locks!ClearReady
  PROVE  KeyInv'
<1> USE DEF KeyInv, FramesInv
<1>1. CASE Locks!TakeFrame
  <2>1. UNCHANGED <<encode, keyReady, U0Count, keyBuf, level, scans, key_stat, saw, keyBit, answer, wire,
                    held>>
    BY <1>1 DEF Locks!TakeFrame, Locks!busVars
  <2>2. \/ /\ kpc = "top" /\ keyReady /\ kpc' = IF keyBuf[1] = encode THEN "ends" ELSE "clear"
        \/ /\ kpc = "ends" /\ kpc' = IF keyBuf[0] = \hFA /\ keyBuf[4] = \hFF THEN "cmd" ELSE "clear"
        \/ /\ kpc = "cmd"
           /\ \/ keyBuf[2] = 1 /\ kpc' = "key"
              \/ kpc' \in {"state", "clear"}
    BY <1>1 DEF Locks!TakeFrame
  <2>3. SeenInBuffer'
    BY <2>1, <2>2 DEF SeenInBuffer
  <2> QED
    BY <2>1, <2>2, <2>3 DEF KeyTypes, ScansInv, HeadsOnWire, RestComes, FrameInHand
<1>2. CASE Locks!TakeKey
  <2>1. /\ kpc = "key" /\ keyBit' = keyBuf[3] /\ kpc' = IF keyBuf[3] \in Locks!Key THEN "open" ELSE "clear"
        /\ UNCHANGED <<encode, keyReady, U0Count, keyBuf, level, scans, key_stat, saw, answer, wire, held>>
    BY <1>2 DEF Locks!TakeKey, Locks!busVars
  <2> QED
    BY <2>1 DEF KeyTypes, ScansInv, HeadsOnWire, RestComes, SeenInBuffer, FrameInHand
<1>3. CASE Locks!Open
  <2>1. /\ kpc = "open" /\ kpc' = "beep"
        /\ UNCHANGED <<encode, keyReady, U0Count, keyBuf, level, scans, key_stat, saw, keyBit, answer, wire,
                       held>>
    BY <1>3 DEF Locks!Open
  <2> QED
    BY <2>1 DEF KeyTypes, ScansInv, HeadsOnWire, RestComes, SeenInBuffer, FrameInHand
<1>4. CASE Locks!Release
  <2>1. /\ kpc = "beep" /\ kpc' = "answer" /\ Locks!KeyScan(0) /\ 0 \in 0..2
        /\ UNCHANGED <<encode, keyReady, U0Count, keyBuf, level, keyBit, answer, wire, held>>
    BY <1>4 DEF Locks!Release, Locks!busVars
  <2>2. KeyTypes' /\ ScansInv'
    BY <2>1, ScanIsRight DEF KeyTypes, ScansInv
  <2> QED
    BY <2>1, <2>2 DEF HeadsOnWire, RestComes, SeenInBuffer, FrameInHand
<1>5. CASE Locks!Answer
  <2>1. /\ kpc = "answer" /\ kpc' = "clear"
        /\ UNCHANGED <<encode, keyReady, U0Count, keyBuf, level, scans, key_stat, saw, keyBit, wire, held>>
    BY <1>5 DEF Locks!Answer
  <2> QED
    BY <2>1 DEF KeyTypes, ScansInv, HeadsOnWire, RestComes, SeenInBuffer, FrameInHand
<1>6. CASE Locks!AnswerState
  <2>1. /\ kpc = "state" /\ kpc' = "clear" /\ answer'[1] # \hFB
        /\ UNCHANGED <<encode, keyReady, U0Count, keyBuf, level, scans, key_stat, saw, keyBit, wire, held>>
    BY <1>6 DEF Locks!AnswerState
  <2> QED
    BY <2>1 DEF KeyTypes, ScansInv, HeadsOnWire, RestComes, SeenInBuffer, FrameInHand
<1>7. CASE Locks!ClearCount
  <2>1. /\ kpc = "clear" /\ kpc' = "ready" /\ U0Count' = 0
        /\ UNCHANGED <<encode, keyReady, keyBuf, level, scans, key_stat, saw, keyBit, answer, wire>>
    BY <1>7 DEF Locks!ClearCount, Locks!busVars
  <2> QED
    BY <2>1 DEF KeyTypes, ScansInv, HeadsOnWire, RestComes, SeenInBuffer, FrameInHand
<1>8. CASE Locks!ClearReady
  <2>1. /\ kpc = "ready" /\ kpc' = "top" /\ keyReady' = FALSE /\ Locks!KeyScan(scans) /\ scans \in 0..2
        /\ UNCHANGED <<encode, U0Count, keyBuf, level, keyBit, answer, wire, held>>
    BY <1>8 DEF Locks!ClearReady, Locks!busVars, KeyTypes
  <2>2. KeyTypes' /\ ScansInv'
    BY <2>1, ScanIsRight DEF KeyTypes, ScansInv
  <2> QED
    BY <2>1, <2>2 DEF HeadsOnWire, RestComes, SeenInBuffer, FrameInHand
<1> QED
  BY <1>1, <1>2, <1>3, <1>4, <1>5, <1>6, <1>7, <1>8

-----------------------------------------------------------------------------
(* KeyBoard: what the host may rely on                                      *)

\* A lock opens alone and as its command, still whole in the buffer, says.
OpensAsSaid ==
  latch' # latch /\ kpc # "test" =>
    \A k \in Locks!Key : ~Locks!IsOpen(k) /\ Locks!IsOpen(k)' => Locks!OpensAlone(k)

LEMMA OpensTheSaid ==
  ASSUME KeysAndBytes, KeyInv, [Locks!KeyNext]_Locks!keyVars
  PROVE  OpensAsSaid
<1> SUFFICES ASSUME latch' # latch, kpc # "test", NEW k \in Locks!Key, Locks!IsOpen(k)'
             PROVE  Locks!OpensAlone(k)
  BY DEF OpensAsSaid
<1>1. \A j \in Locks!Key : Locks!IsOpen(j)' <=> OpenAt(latch', j)
  BY DEF Locks!IsOpen, OpenAt, Locks!bit
<1>2. latch' # Locks!Send595(0)
  BY <1>1, OnlyThisOpens
<1>3. Locks!Open
  BY <1>2 DEF Locks!KeyNext, Locks!KeyMain, Locks!KeyInterrupt, Locks!Boot, Locks!SelfTest,
    Locks!Idle, Locks!TakeFrame, Locks!TakeKey, Locks!Release, Locks!Answer, Locks!AnswerState,
    Locks!ClearCount, Locks!ClearReady, Locks!ByteArrives, Locks!FrameEnds, Locks!HostAsks,
    Locks!OtherAnswers, Locks!Says, Locks!KeyMoves, Locks!keyVars
<1>4. /\ keyBit \in Locks!Key /\ latch' = Locks!Send595(Locks!bit(keyBit))
      /\ held # "lapped" => /\ keyBuf[0] = \hFA /\ keyBuf[1] = encode /\ keyBuf[2] = 1
                            /\ keyBuf[3] = keyBit /\ keyBuf[4] = \hFF
  BY <1>3 DEF Locks!Open, KeyInv, FramesInv, FrameInHand, SeenInBuffer
<1>5. \A j \in Locks!Key : OpenAt(latch', j) <=> j = keyBit
  BY <1>4, OnlyThisOpens
<1>6. k = keyBit
  BY <1>1, <1>5
<1> QED
  BY <1>1, <1>4, <1>5, <1>6 DEF Locks!OpensAlone, Locks!Commands

\* The bits of a byte, and of three bytes.
IsBit(a) == a \in {0, 1}
IsSum(v, a0, a1, a2, a3, a4, a5, a6, a7) ==
  v = a0 + 2 * a1 + 4 * a2 + 8 * a3 + 16 * a4 + 32 * a5 + 64 * a6 + 128 * a7
HasBits(v, a0, a1, a2, a3, a4, a5, a6, a7) ==
  /\ v \in 0..255
  /\ v % 2 = a0 /\ (v \div 2) % 2 = a1 /\ (v \div 4) % 2 = a2 /\ (v \div 8) % 2 = a3
  /\ (v \div 16) % 2 = a4 /\ (v \div 32) % 2 = a5 /\ (v \div 64) % 2 = a6
  /\ (v \div 128) % 2 = a7

LEMMA BitsOfByte ==
  ASSUME NEW v, NEW a0, NEW a1, NEW a2, NEW a3, NEW a4, NEW a5, NEW a6, NEW a7,
         IsBit(a0), IsBit(a1), IsBit(a2), IsBit(a3), IsBit(a4), IsBit(a5), IsBit(a6), IsBit(a7),
         IsSum(v, a0, a1, a2, a3, a4, a5, a6, a7)
  PROVE  HasBits(v, a0, a1, a2, a3, a4, a5, a6, a7)
BY DEF IsBit, IsSum, HasBits

BitAt(w, i) == (w \div TwoTo(i)) % 2
LowSame(x, lo, i) == BitAt(x * 256 + lo, i) = BitAt(lo, i)
HighSame(w, i) == BitAt(w, i + 8) = BitAt(w \div 256, i)

\* The low byte of a number has its low bits.
LEMMA LowBits ==
  ASSUME NEW x \in Nat, NEW lo \in 0..255, NEW i \in 0..7
  PROVE  LowSame(x, lo, i)
<1> USE DEF LowSame
<1>1. CASE i = 0
  <2>1. (x * 256 + lo) \div 1 = 2 * (128 * x) + (lo \div 1)
    OBVIOUS
  <2>2. PICK h \in Int, l \in Int : h = 128 * x /\ l = lo \div 1
    OBVIOUS
  <2>3. TwoTo(i) = 1
    BY <1>1, PowersOfTwo
  <2> QED
    BY <2>1, <2>2, <2>3 DEF BitAt
<1>2. CASE i = 1
  <2>1. (x * 256 + lo) \div 2 = 2 * (64 * x) + (lo \div 2)
    OBVIOUS
  <2>2. PICK h \in Int, l \in Int : h = 64 * x /\ l = lo \div 2
    OBVIOUS
  <2>3. TwoTo(i) = 2
    BY <1>2, PowersOfTwo
  <2> QED
    BY <2>1, <2>2, <2>3 DEF BitAt
<1>3. CASE i = 2
  <2>1. (x * 256 + lo) \div 4 = 2 * (32 * x) + (lo \div 4)
    OBVIOUS
  <2>2. PICK h \in Int, l \in Int : h = 32 * x /\ l = lo \div 4
    OBVIOUS
  <2>3. TwoTo(i) = 4
    BY <1>3, PowersOfTwo
  <2> QED
    BY <2>1, <2>2, <2>3 DEF BitAt
<1>4. CASE i = 3
  <2>1. (x * 256 + lo) \div 8 = 2 * (16 * x) + (lo \div 8)
    OBVIOUS
  <2>2. PICK h \in Int, l \in Int : h = 16 * x /\ l = lo \div 8
    OBVIOUS
  <2>3. TwoTo(i) = 8
    BY <1>4, PowersOfTwo
  <2> QED
    BY <2>1, <2>2, <2>3 DEF BitAt
<1>5. CASE i = 4
  <2>1. (x * 256 + lo) \div 16 = 2 * (8 * x) + (lo \div 16)
    OBVIOUS
  <2>2. PICK h \in Int, l \in Int : h = 8 * x /\ l = lo \div 16
    OBVIOUS
  <2>3. TwoTo(i) = 16
    BY <1>5, PowersOfTwo
  <2> QED
    BY <2>1, <2>2, <2>3 DEF BitAt
<1>6. CASE i = 5
  <2>1. (x * 256 + lo) \div 32 = 2 * (4 * x) + (lo \div 32)
    OBVIOUS
  <2>2. PICK h \in Int, l \in Int : h = 4 * x /\ l = lo \div 32
    OBVIOUS
  <2>3. TwoTo(i) = 32
    BY <1>6, PowersOfTwo
  <2> QED
    BY <2>1, <2>2, <2>3 DEF BitAt
<1>7. CASE i = 6
  <2>1. (x * 256 + lo) \div 64 = 2 * (2 * x) + (lo \div 64)
    OBVIOUS
  <2>2. PICK h \in Int, l \in Int : h = 2 * x /\ l = lo \div 64
    OBVIOUS
  <2>3. TwoTo(i) = 64
    BY <1>7, PowersOfTwo
  <2> QED
    BY <2>1, <2>2, <2>3 DEF BitAt
<1>8. CASE i = 7
  <2>1. (x * 256 + lo) \div 128 = 2 * (1 * x) + (lo \div 128)
    OBVIOUS
  <2>2. PICK h \in Int, l \in Int : h = 1 * x /\ l = lo \div 128
    OBVIOUS
  <2>3. TwoTo(i) = 128
    BY <1>8, PowersOfTwo
  <2> QED
    BY <2>1, <2>2, <2>3 DEF BitAt
<1> QED
  BY <1>1, <1>2, <1>3, <1>4, <1>5, <1>6, <1>7, <1>8

LEMMA HighBits ==
  ASSUME NEW w \in Nat, NEW i \in 0..15
  PROVE  HighSame(w, i)
<1> USE DEF HighSame
<1>1. CASE i = 0
  <2>1. TwoTo(i) = 1 /\ TwoTo(i + 8) = 256
    BY <1>1, PowersOfTwo
  <2>2. w \div 256 = (w \div 256) \div 1
    OBVIOUS
  <2> QED
    BY <2>1, <2>2 DEF BitAt
<1>2. CASE i = 1
  <2>1. TwoTo(i) = 2 /\ TwoTo(i + 8) = 512
    BY <1>2, PowersOfTwo
  <2>2. w \div 512 = (w \div 256) \div 2
    OBVIOUS
  <2> QED
    BY <2>1, <2>2 DEF BitAt
<1>3. CASE i = 2
  <2>1. TwoTo(i) = 4 /\ TwoTo(i + 8) = 1024
    BY <1>3, PowersOfTwo
  <2>2. w \div 1024 = (w \div 256) \div 4
    OBVIOUS
  <2> QED
    BY <2>1, <2>2 DEF BitAt
<1>4. CASE i = 3
  <2>1. TwoTo(i) = 8 /\ TwoTo(i + 8) = 2048
    BY <1>4, PowersOfTwo
  <2>2. w \div 2048 = (w \div 256) \div 8
    OBVIOUS
  <2> QED
    BY <2>1, <2>2 DEF BitAt
<1>5. CASE i = 4
  <2>1. TwoTo(i) = 16 /\ TwoTo(i + 8) = 4096
    BY <1>5, PowersOfTwo
  <2>2. w \div 4096 = (w \div 256) \div 16
    OBVIOUS
  <2> QED
    BY <2>1, <2>2 DEF BitAt
<1>6. CASE i = 5
  <2>1. TwoTo(i) = 32 /\ TwoTo(i + 8) = 8192
    BY <1>6, PowersOfTwo
  <2>2. w \div 8192 = (w \div 256) \div 32
    OBVIOUS
  <2> QED
    BY <2>1, <2>2 DEF BitAt
<1>7. CASE i = 6
  <2>1. TwoTo(i) = 64 /\ TwoTo(i + 8) = 16384
    BY <1>7, PowersOfTwo
  <2>2. w \div 16384 = (w \div 256) \div 64
    OBVIOUS
  <2> QED
    BY <2>1, <2>2 DEF BitAt
<1>8. CASE i = 7
  <2>1. TwoTo(i) = 128 /\ TwoTo(i + 8) = 32768
    BY <1>8, PowersOfTwo
  <2>2. w \div 32768 = (w \div 256) \div 128
    OBVIOUS
  <2> QED
    BY <2>1, <2>2 DEF BitAt
<1>9. CASE i = 8
  <2>1. TwoTo(i) = 256 /\ TwoTo(i + 8) = 65536
    BY <1>9, PowersOfTwo
  <2>2. w \div 65536 = (w \div 256) \div 256
    OBVIOUS
  <2> QED
    BY <2>1, <2>2 DEF BitAt
<1>10. CASE i = 9
  <2>1. TwoTo(i) = 512 /\ TwoTo(i + 8) = 131072
    BY <1>10, PowersOfTwo
  <2>2. w \div 131072 = (w \div 256) \div 512
    OBVIOUS
  <2> QED
    BY <2>1, <2>2 DEF BitAt
<1>11. CASE i = 10
  <2>1. TwoTo(i) = 1024 /\ TwoTo(i + 8) = 262144
    BY <1>11, PowersOfTwo
  <2>2. w \div 262144 = (w \div 256) \div 1024
    OBVIOUS
  <2> QED
    BY <2>1, <2>2 DEF BitAt
<1>12. CASE i = 11
  <2>1. TwoTo(i) = 2048 /\ TwoTo(i + 8) = 524288
    BY <1>12, PowersOfTwo
  <2>2. w \div 524288 = (w \div 256) \div 2048
    OBVIOUS
  <2> QED
    BY <2>1, <2>2 DEF BitAt
<1>13. CASE i = 12
  <2>1. TwoTo(i) = 4096 /\ TwoTo(i + 8) = 1048576
    BY <1>13, PowersOfTwo
  <2>2. w \div 1048576 = (w \div 256) \div 4096
    OBVIOUS
  <2> QED
    BY <2>1, <2>2 DEF BitAt
<1>14. CASE i = 13
  <2>1. TwoTo(i) = 8192 /\ TwoTo(i + 8) = 2097152
    BY <1>14, PowersOfTwo
  <2>2. w \div 2097152 = (w \div 256) \div 8192
    OBVIOUS
  <2> QED
    BY <2>1, <2>2 DEF BitAt
<1>15. CASE i = 14
  <2>1. TwoTo(i) = 16384 /\ TwoTo(i + 8) = 4194304
    BY <1>15, PowersOfTwo
  <2>2. w \div 4194304 = (w \div 256) \div 16384
    OBVIOUS
  <2> QED
    BY <2>1, <2>2 DEF BitAt
<1>16. CASE i = 15
  <2>1. TwoTo(i) = 32768 /\ TwoTo(i + 8) = 8388608
    BY <1>16, PowersOfTwo
  <2>2. w \div 8388608 = (w \div 256) \div 32768
    OBVIOUS
  <2> QED
    BY <2>1, <2>2 DEF BitAt
<1> QED
  BY <1>1, <1>2, <1>3, <1>4, <1>5, <1>6, <1>7, <1>8, <1>9, <1>10, <1>11, <1>12, <1>13, <1>14, <1>15, <1>16

\* A byte of the answer, at its bit i.
LEMMA ByteTells ==
  ASSUME KeyTypes, NEW b \in 0..2
  PROVE  /\ Locks!KeyByte(b) \in 0..255
         /\ \A i \in 0..7 : (Locks!KeyByte(b) \div TwoTo(i)) % 2
                              = IF 8*b + i \in Locks!Key THEN key_stat[8*b + i] ELSE 0
<1> DEFINE on(i) == IF 8*b + i \in Locks!Key THEN key_stat[8*b + i] ELSE 0
<1>1. ASSUME NEW i \in 0..7 PROVE on(i) \in {0, 1}
  BY DEF KeyTypes
<1>2. /\ IsBit(on(0)) /\ IsBit(on(1)) /\ IsBit(on(2)) /\ IsBit(on(3))
      /\ IsBit(on(4)) /\ IsBit(on(5)) /\ IsBit(on(6)) /\ IsBit(on(7))
  <2> HIDE DEF on
  <2> QED
    BY <1>1 DEF IsBit
<1>3. IsSum(Locks!KeyByte(b), on(0), on(1), on(2), on(3), on(4), on(5), on(6), on(7))
  BY Zenon DEF Locks!KeyByte, IsSum
<1> HIDE DEF on
<1> DEFINE v == Locks!KeyByte(b)
<1>4. HasBits(v, on(0), on(1), on(2), on(3), on(4), on(5), on(6), on(7))
  BY <1>2, <1>3, BitsOfByte, Zenon
<1>5. ASSUME NEW i \in 0..7 PROVE (v \div TwoTo(i)) % 2 = on(i)
  <2> HIDE DEF v
  <2>1. i = 0 \/ i = 1 \/ i = 2 \/ i = 3 \/ i = 4 \/ i = 5 \/ i = 6 \/ i = 7
    OBVIOUS
  <2>2. v \in 0..255 /\ v \div 1 = v
    BY <1>4 DEF HasBits
  <2> QED
    BY <1>4, <2>1, <2>2, PowersOfTwo DEF HasBits
<1> QED
  BY <1>4, <1>5 DEF on, HasBits

LEMMA ThreeBytesTell ==
  ASSUME KeysAndBytes, KeyTypes, NEW k \in Locks!Key
  PROVE  ((Locks!KeyByte(2) * 65536 + Locks!KeyByte(1) * 256 + Locks!KeyByte(0)) \div 2^k) % 2 = key_stat[k]
<1>1. PICK hi \in 0..255, mid \in 0..255, lo \in 0..255 :
        hi = Locks!KeyByte(2) /\ mid = Locks!KeyByte(1) /\ lo = Locks!KeyByte(0)
  <2>1. \A b \in 0..2 : Locks!KeyByte(b) \in 0..255
    BY ByteTells
  <2>2. Locks!KeyByte(2) \in 0..255 /\ Locks!KeyByte(1) \in 0..255 /\ Locks!KeyByte(0) \in 0..255
    BY <2>1
  <2> QED
    BY <2>2
<1>2. PICK w \in Int : w = hi * 65536 + mid * 256 + lo
  BY <1>1
<1>3. k \in 0..23
  BY DEF KeysAndBytes, Locks!Key
<1>4. PICK b \in 0..2, i \in 0..7 : k = 8*b + i
  <2>1. CASE k \in 0..7
    <3>1. k = 8 * 0 + k
      BY <2>1
    <3> QED
      BY <2>1, <3>1
  <2>2. CASE k \in 8..15
    <3>1. k = 8 * 1 + (k - 8) /\ k - 8 \in 0..7
      BY <2>2
    <3> QED
      BY <3>1
  <2>3. CASE k \in 16..23
    <3>1. k = 8 * 2 + (k - 16) /\ k - 16 \in 0..7
      BY <2>3
    <3> QED
      BY <3>1
  <2> QED
    BY <1>3, <2>1, <2>2, <2>3
<1>5. BitAt(Locks!KeyByte(b), i) = key_stat[k]
  BY <1>4, ByteTells DEF BitAt
<1>6. ASSUME b = 0 PROVE BitAt(w, k) = key_stat[k]
  <2>1. PICK x \in Nat : x = hi * 256 + mid
    OBVIOUS
  <2>2. w = x * 256 + lo /\ k = i
    BY <1>2, <1>4, <1>6, <2>1
  <2>3. BitAt(w, k) = BitAt(lo, i)
    <3>1. x \in Nat /\ lo \in 0..255 /\ i \in 0..7
      BY <1>1, <1>4, <2>1
    <3>2. LowSame(x, lo, i)
      BY <3>1, LowBits
    <3> QED
      BY <2>2, <3>2, Zenon DEF LowSame
  <2> QED
    BY <1>1, <1>5, <1>6, <2>3
<1>7. ASSUME b = 1 PROVE BitAt(w, k) = key_stat[k]
  <2>1. w \in Nat /\ w \div 256 = hi * 256 + mid /\ k = i + 8
    BY <1>2, <1>4, <1>7
  <2>2. BitAt(w, k) = BitAt(hi * 256 + mid, i)
    <3>1. i \in 0..15
      BY <1>4
    <3>2. HighSame(w, i)
      BY <2>1, <3>1, HighBits
    <3> QED
      BY <2>1, <3>2, Zenon DEF HighSame
  <2>3. BitAt(hi * 256 + mid, i) = BitAt(mid, i)
    <3>1. hi \in Nat /\ mid \in 0..255 /\ i \in 0..7
      BY <1>1, <1>4
    <3>2. LowSame(hi, mid, i)
      BY <3>1, LowBits
    <3> QED
      BY <3>2, Zenon DEF LowSame
  <2> QED
    BY <1>1, <1>5, <1>7, <2>2, <2>3
<1>8. ASSUME b = 2 PROVE BitAt(w, k) = key_stat[k]
  <2>1. w \in Nat /\ w \div 256 = hi * 256 + mid /\ k = (i + 8) + 8 /\ i + 8 \in 0..15 /\ i \in 0..15
    BY <1>2, <1>4, <1>8
  <2>2. PICK x \in Nat : x = hi * 256 + mid
    OBVIOUS
  <2>3. BitAt(w, k) = BitAt(x, i + 8)
    <3>1. HighSame(w, i + 8)
      BY <2>1, HighBits
    <3> QED
      BY <2>1, <2>2, <3>1, Zenon DEF HighSame
  <2>4. BitAt(x, i + 8) = BitAt(x \div 256, i)
    <3>1. HighSame(x, i)
      BY <2>1, <2>2, HighBits
    <3> QED
      BY <3>1, Zenon DEF HighSame
  <2>5. x \div 256 = hi
    BY <2>2
  <2> QED
    BY <1>1, <1>5, <1>8, <2>3, <2>4, <2>5
<1>9. BitAt(w, k) = key_stat[k]
  BY <1>6, <1>7, <1>8
<1> QED
  BY <1>1, <1>2, <1>9 DEF TwoTo, BitAt

LEMMA AnswersTheAsked ==
  ASSUME KeysAndBytes, KeyInv, [Locks!KeyNext]_Locks!keyVars
  PROVE  Locks!AnswersTruly
<1> SUFFICES ASSUME answer' # answer PROVE Locks!AnswersTruly
  BY DEF Locks!AnswersTruly
<1>1. Locks!Answer \/ Locks!AnswerState
  BY DEF Locks!KeyNext, Locks!KeyMain, Locks!KeyInterrupt, Locks!Boot, Locks!SelfTest, Locks!Idle,
    Locks!TakeFrame, Locks!TakeKey, Locks!Open, Locks!Release, Locks!ClearCount, Locks!ClearReady,
    Locks!ByteArrives, Locks!FrameEnds, Locks!HostAsks, Locks!OtherAnswers, Locks!Says,
    Locks!KeyMoves, Locks!keyVars
<1>2. CASE Locks!Answer
  <2>1. /\ kpc = "answer"
        /\ answer' = <<\hFB, keyBuf[1], keyBuf[2], keyBuf[3], key_stat[keyBit], \hFF>>
    BY <1>2 DEF Locks!Answer
  <2>2. answer'[1] = \hFB /\ answer'[2] = keyBuf[1] /\ answer'[4] = keyBuf[3] /\ answer'[5] = key_stat[keyBit]
    BY <2>1
  <2>3. keyBit \in Locks!Key /\ (held # "lapped" => keyBuf[1] = encode /\ keyBuf[3] = keyBit)
    BY <2>1 DEF KeyInv, FramesInv, FrameInHand, SeenInBuffer
  <2>4. key_stat[keyBit] <= saw[keyBit] /\ (Keys = 8 => key_stat[keyBit] = saw[keyBit])
    BY <2>3 DEF KeyInv, ScansInv
  <2> QED
    BY <2>2, <2>3, <2>4 DEF Locks!AnswersTruly
<1>3. CASE Locks!AnswerState
  <2>1. /\ kpc = "state"
        /\ answer' = <<\hFC, keyBuf[1], Locks!KeyByte(2), Locks!KeyByte(1), Locks!KeyByte(0), \hFF>>
    BY <1>3 DEF Locks!AnswerState
  <2>2. /\ answer'[1] = \hFC /\ answer'[2] = keyBuf[1] /\ answer'[3] = Locks!KeyByte(2)
        /\ answer'[4] = Locks!KeyByte(1) /\ answer'[5] = Locks!KeyByte(0)
    BY <2>1
  <2>3. held # "lapped" => answer'[2] = encode
    BY <2>1, <2>2 DEF KeyInv, FramesInv, SeenInBuffer
  <2>4. \A k \in Locks!Key : (Locks!Bits(answer') \div 2^k) % 2 = key_stat[k]
    BY <2>2, ThreeBytesTell DEF KeyInv, Locks!Bits
  <2>5. \A k \in Locks!Key : key_stat[k] <= saw[k]
    BY DEF KeyInv, ScansInv
  <2>6. Keys = 8 \/ scans = 2 \/ answer[1] = \hFB => key_stat = saw
    BY <2>1 DEF KeyInv, ScansInv
  <2>7. ASSUME NEW k \in Locks!Key
        PROVE  LET on == (Locks!Bits(answer') \div 2^k) % 2 IN
                 on <= saw[k] /\ (Keys = 8 \/ scans = 2 \/ answer[1] = \hFB => on = saw[k])
    <3>1. PICK on : on = (Locks!Bits(answer') \div 2^k) % 2
      OBVIOUS
    <3>2. on = key_stat[k]
      BY <2>4, <3>1
    <3>3. on <= saw[k] /\ (Keys = 8 \/ scans = 2 \/ answer[1] = \hFB => on = saw[k])
      BY <2>5, <2>6, <3>2
    <3> QED
      BY <3>1, <3>3, Zenon
  <2> QED
    BY <2>2, <2>3, <2>7 DEF Locks!AnswersTruly
<1> QED
  BY <1>1, <1>2, <1>3

\* However frames, answers, interrupts and moves of the keys mingle with the work of the
\* board: when a lock opens no other is open, and unless bytes came round to the frame that
\* is looked at the command for it is still whole in the buffer; the answers tell no key out
\* that the last scan saw in, each key at its bit (main.c:59, 140-186, 241-285).
THEOREM HostIsServed ==
  ASSUME KeysAndBytes
  PROVE  Locks!KeySpec => [][OpensAsSaid /\ Locks!AnswersTruly]_Locks!keyVars
<1>1. KeyInv /\ [Locks!KeyNext]_Locks!keyVars => KeyInv'
  <2> SUFFICES ASSUME KeyInv, [Locks!KeyNext]_Locks!keyVars PROVE KeyInv'
    OBVIOUS
  <2>1. CASE Locks!KeyMain
    BY <2>1, IdleKeeps, FrameKeeps DEF Locks!KeyMain
  <2>2. CASE Locks!KeyInterrupt
    BY <2>2, InterruptsKeep
  <2>3. CASE UNCHANGED Locks!keyVars
    BY <2>3 DEF Locks!keyVars, Locks!busVars, KeyInv, KeyTypes, FramesInv, HeadsOnWire, RestComes,
      SeenInBuffer, FrameInHand, ScansInv
  <2> QED
    BY <2>1, <2>2, <2>3, OutsideKeeps DEF Locks!KeyNext
<1>2. KeyInv /\ [Locks!KeyNext]_Locks!keyVars => OpensAsSaid /\ Locks!AnswersTruly
  BY OpensTheSaid, AnswersTheAsked
<1> QED
  BY <1>1, <1>2, KeyStart, PTL DEF Locks!KeySpec
=============================================================================
