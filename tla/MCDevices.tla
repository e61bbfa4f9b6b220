------------------------------ MODULE MCDevices ------------------------------
(***************************************************************************)
(* The boards and the programs on them: the driver of the radio in its six        *)
(* copies, the cards at the grain of their interrupt, the gateways under a host    *)
(* that does not wait, the key boards, the Wiegand board, the display and the      *)
(* modem of the GIS box, ev_set and the profile of the BER test.  As in            *)
(* MCServices one of them moves in a behaviour.                              *)
(***************************************************************************)
EXTENDS SerialGateway, Files, TLC

\* Beside those of SerialGateway and Files
VARIABLES
  part,
  radio, chip, ready, given, calls, airFifo, airBuf,             \* Radios
  kind, bpc, flag, len, rBuf, enabled, cardBuf, answered, due, owed, cardRaced, swapped,
  heard,                                                         \* CardBoard
  kpc, encode, keyReady, U0Count, keyBuf, t2, latch, level, scans, key_stat, saw, keyBit,
  answer, wire, events, want, openDue, held,                     \* KeyBoard
  wpc, start, zLen, tagReady, tagCount, U0Buf, cable, lost, line, dueTag, spliced, pulses,
  reading, panel, shown,                                         \* Display
  xpc, again, gsmBuf, gsmCount, gsmReady, gsmT2, tmask, T1Count, macReady, queue, mode,
  said                                                           \* GisBox

-----------------------------------------------------------------------------
(* A packet of a card and one of a gateway, as the FIFO holds them              *)
Pad(p) == p \o [k \in 1..(18 - Len(p)) |-> 0]
Drivers == INSTANCE Radios WITH
  Boards <- {"imx6", "v10", "m8", "pa48", "pc11", "box"}, Freq <- {470001}, Lens <- {7},
  Rates <- {10, 33}, Levels <- {8, 9},
  Packets <- {Pad(<<252, 4, 7, 255>>), Pad(<<254, 7, 5, 5>>)}, Counts <- {186, 190},
  MaxCalls <- 2, board <- radio, fifo <- airFifo, buf <- airBuf

(* Requests for the card 5, for everybody and for another card, an answer of a     *)
(* V1.1 card, those of a V1.0 card, and a packet of a wrong length            *)
P(h, l, t, n) == [head |-> h, len |-> l, tag |-> t, number |-> n]
Cards == INSTANCE CardBoard WITH
  Kinds <- {"v10", "m8", "pa48"}, nId <- 5, AllCards <- 65535, MaxHeard <- 3,
  tBuf <- cardBuf, raced <- cardRaced,
  Air <- {P(254, 7, 1, 5), P(254, 7, 2, 6), P(254, 7, 3, 65535), P(252, 7, 4, 5),
          P(254, 2, 5, 0), P(252, 2, 6, 0), P(254, 20, 7, 5)}

F(whole, ok, hi, lo) == [whole |-> whole, ok |-> ok, hi |-> hi, lo |-> lo]
SerialBoards == {"imx6", "pc12", "pc11"}
Broadcast == <<255, 255>>
SerialRequests ==
  {F(TRUE, TRUE, 1, 2), F(TRUE, TRUE, 3, 4), F(FALSE, TRUE, 5, 6), F(TRUE, FALSE, 7, 7)}

(* Board number 3, or the switches of the self-test; keys 23 and 24 or 7 and 8      *)
Keys24 == INSTANCE KeyBoard WITH
  Keys <- 24, Code <- {3, 15}, Other <- 4, Asked <- {18}, Moves <- {18}, MaxEvents <- 3,
  U0Ready <- keyReady, rBuf <- keyBuf, told <- answer, due <- openDue
Keys8 == INSTANCE KeyBoard WITH
  Keys <- 8, Code <- {3, 15}, Other <- 4, Asked <- {7, 8}, Moves <- {7}, MaxEvents <- 2,
  U0Ready <- keyReady, rBuf <- keyBuf, told <- answer, due <- openDue

Tag(ant, last) == [ant |-> ant, epc |-> <<1, 1, 1, 1, 1, 1, 1, 1>> \o last]
Reader == INSTANCE Wiegand WITH
  Tags <- {Tag(1, <<1, 2, 4, 129>>), Tag(6, <<160, 7, 255, 3>>)}, Others <- {<<160, 30>>},
  MaxLost <- 1, U0Ready <- tagReady, U0Count <- tagCount, due <- dueTag

(* 0 to 99.9 degrees, two above and some below zero, in sixteenths               *)
Screen == INSTANCE Display WITH
  Readings <- {0, 1, 8, 15, 16, 152, 159, 160, 400, 1599, 1600, 2047,
               65535, 65528, 65376, 65280, 64656, 63488}

Modem == INSTANCE GisBox WITH
  MaxSaid <- 2, bpc <- xpc, U0Buf <- gsmBuf, U0Count <- gsmCount, U0Ready <- gsmReady,
  t2 <- gsmT2

\* Of EvSet and Profile
SomeDevices == [hidraw : 0..2, kind : {"touch", "rfid", "scan"}, opens : {TRUE}]
               \cup [hidraw : {1, 2}, kind : {"rfid"}, opens : {FALSE}]
SomeValues == {[k \in 1..n |-> 5000 + k] : n \in {1, 12, 24}}

-----------------------------------------------------------------------------
radiosVars == <<radio, chip, ready, given, calls, airFifo, airBuf>>
cardVars == <<kind, bpc, flag, len, rBuf, enabled, cardBuf, answered, owed, due, cardRaced,
              swapped, heard>>
keyVars == <<kpc, encode, keyReady, U0Count, keyBuf, t2, latch, level, scans, key_stat, saw, keyBit,
             answer, wire, events, want, openDue, held>>
wiegandVars == <<wpc, start, zLen, tagReady, tagCount, U0Buf, cable, lost, line, dueTag, spliced, pulses>>
displayVars == <<reading, panel, shown>>
boxVars == <<xpc, again, gsmBuf, gsmCount, gsmReady, gsmT2, tmask, T1Count, macReady, queue,
             mode, said>>
vars == <<part, radiosVars, cardVars, serialVars, keyVars, wiegandVars, displayVars, boxVars,
          evVars, profileVars>>

Init ==
  /\ part \in {"radio", "card", "serial", "key24", "key8", "wiegand", "display", "modem",
               "setup", "settings"}
  /\ Drivers!RadiosInit /\ (part = "radio" \/ radio = "imx6")
  /\ Cards!BoardInit /\ (part = "card" \/ kind = "v10")
  /\ SerialInit /\ (part = "serial" \/ board = "imx6")
  /\ IF part = "key24" THEN Keys24!KeyInit ELSE Keys8!KeyInit
  /\ Reader!BoardInit /\ Modem!BoxInit
  /\ IF part = "display" THEN Screen!DisplayInit
     ELSE reading = Screen!NoReading /\ panel = <<>> /\ shown = <<0, 0>>
  /\ EvInit /\ (part = "setup" \/ (devices = {} /\ number = 2))
  /\ ProfileInit

\* The parts that do not move.
Others ==
  /\ UNCHANGED part
  /\ IF part = "radio" THEN TRUE ELSE UNCHANGED radiosVars
  /\ IF part = "card" THEN TRUE ELSE UNCHANGED cardVars
  /\ IF part = "serial" THEN TRUE ELSE UNCHANGED serialVars
  /\ IF part \in {"key24", "key8"} THEN TRUE ELSE UNCHANGED keyVars
  /\ IF part = "wiegand" THEN TRUE ELSE UNCHANGED wiegandVars
  /\ IF part = "display" THEN TRUE ELSE UNCHANGED displayVars
  /\ IF part = "modem" THEN TRUE ELSE UNCHANGED boxVars
  /\ IF part = "setup" THEN TRUE ELSE UNCHANGED evVars
  /\ IF part = "settings" THEN TRUE ELSE UNCHANGED profileVars

Next ==
  /\ Others
  /\ \/ part = "radio" /\ Drivers!RadiosNext
     \/ part = "card" /\ Cards!BoardNext
     \/ part = "serial" /\ SerialNext
     \/ part = "key24" /\ Keys24!KeyNext
     \/ part = "key8" /\ Keys8!KeyNext
     \/ part = "wiegand" /\ Reader!BoardNext
     \/ part = "display" /\ Screen!DisplayNext
     \/ part = "modem" /\ Modem!BoxNext
     \/ part = "setup" /\ EvNext
     \/ part = "settings" /\ ProfileNext

(* Fairness: each part's own (BoardFair, SerialFair, BoxFair, the main loop and the *)
(* interrupts of the key and Wiegand boards), the first conditions in one, and so   *)
(* on.                                                                      *)
partVars ==
  CASE part = "card"    -> cardVars
    [] part = "serial"  -> serialVars
    [] part = "wiegand" -> wiegandVars
    [] part = "modem"   -> boxVars
    [] OTHER            -> keyVars
Weak1 == UNCHANGED part /\ \/ part = "card" /\ Cards!BoardMain
                           \/ part = "serial" /\ SerialMain
                           \/ part = "key24" /\ Keys24!KeyMain
                           \/ part = "key8" /\ Keys8!KeyMain
                           \/ part = "wiegand" /\ Reader!BoardMain
                           \/ part = "modem" /\ Modem!BoxMain
Weak2 == UNCHANGED part /\ \/ part = "serial" /\ ChangeTurn
                           \/ part = "key24" /\ Keys24!ByteArrives
                           \/ part = "key8" /\ Keys8!ByteArrives
                           \/ part = "wiegand" /\ Reader!Receive
                           \/ part = "modem" /\ Modem!FrameEnds
Weak3 == UNCHANGED part /\ \/ part = "serial" /\ EndSearch
                           \/ part = "key24" /\ Keys24!FrameEnds
                           \/ part = "key8" /\ Keys8!FrameEnds
                           \/ part = "modem" /\ Modem!ModemSpeaks
Weak4 == UNCHANGED part /\ part = "modem" /\ Modem!T1Tick

Spec ==
  /\ Init /\ [][Next]_vars
  /\ WF_partVars(Weak1) /\ WF_partVars(Weak2) /\ WF_partVars(Weak3) /\ WF_partVars(Weak4)

-----------------------------------------------------------------------------
(* What each board or program promises: its properties, each stated and explained in *)
(* its module, taken together with the types of its state; SafeSearch is as          *)
(* SerialGateway has it, FilesAreWhole as Files has it.                         *)

\* The radio is as the tables and the last call say, sleeps on a calibrated oscillator
\* only, and the program has of a packet what came (A7139.c:110-552).
RadioIsSet ==
  part = "radio" =>
    /\ Drivers!RadiosTypeOK
    /\ Drivers!EachAsConfigured
    /\ Drivers!EachSleepsCalibrated
    /\ Drivers!EachReadsWhatCame

\* A card answers with the bytes of a request for it, sleeps on no packet that came
\* before it looked, and answers what wakes it and hears again (cards' main.c).
CardAnswers ==
  /\ [](Cards!BoardTypeOK /\ Cards!AnswerIsDue /\ Cards!SleepsOnNothing)
  /\ Cards!AnswersAndHears

\* What a host asks is done: a lock is opened because the host waits for it, an answer
\* gives the state of the keys, every request is answered (keyV1.1-24 main.c:241-285),
\* and one to a gateway is looked at (gateway-pc/V1.2 main.c:187-199).
HostsServed ==
  /\ [][IF part = "key24" THEN Keys24!OpensAsAsked ELSE part = "key8" => Keys8!OpensAsAsked]_vars
  /\ [][IF part = "key24" THEN Keys24!AnswersTruly ELSE part = "key8" => Keys8!AnswersTruly]_vars
  /\ []SerialTypeOK
  /\ Keys24!RequestAnswered
  /\ RequestIsTaken

\* A door is told a number that the reader reported, a whole frame that comes to an idle
\* board is told, and the receive interrupt stays inside its buffer (BER main.c:76-109,
\* 271-286).
DoorsTold ==
  /\ []Reader!InsideBuffer
  /\ Reader!ToldIsReported
  /\ Reader!WholeFrameTold

\* The GIS box comes to ask for its number (main.c:233-268), and its panel shows the two
\* figures and the tenths of the last reading (main.c:121-175, 18B20.c:62-93).
BoxStarts ==
  /\ [](part = "display" => Screen!ShowsTheFigures /\ Screen!ShownIsMeasured)
  /\ part = "modem" => Modem!ReachesGetMac
=============================================================================
