-------------------------------- MODULE Radios --------------------------------
(***************************************************************************)
(* The boards with an A7139 radio.  Each has its own copy of the driver; the     *)
(* copies differ in the packets they take, in what they store of a packet, and    *)
(* in how they put the radio to sleep.  gateway-pc V1.2 has gateway-imx6's.  That    *)
(* the cards and the box read back the identifier they set changes nothing.      *)
(***************************************************************************)
EXTENDS Integers, Sequences

CONSTANTS
  Boards,    \* of "imx6", "v10", "m8", "pa48", "pc11", "box"
  Freq, Lens, Rates, Levels, Packets, Counts, MaxCalls   \* as in A7139

VARIABLES board, chip, ready, given, calls, fifo, buf

FromGateway == 254
FromCard == 252

\* A gateway keeps the packet of a card as it came.
Imx6Driver ==
  [head |-> FromCard, whole |-> TRUE, gio |-> \h0045, adc |-> \hFCFF, rssi |-> 256,
   sync |-> \hFF06, preamble |-> <<\h0047, \h9860>>]

\* RFID/card/V1.0: what is behind the length.
V10Driver == [Imx6Driver EXCEPT !.head = FromGateway, !.whole = FALSE, !.rssi = 512]

\* RFID/card/V1.1: 1380 ms of sleep.
M8Driver ==
  [Imx6Driver EXCEPT !.head = FromGateway, !.rssi = 512, !.preamble = <<\h0047, \h98B0>>]
Pa48Driver ==
  [Imx6Driver EXCEPT !.head = FromGateway, !.rssi = 512, !.preamble = <<\h0047, \h98B0>>]

\* RFID/gateway-pc/V1.1: the cards V1.0 answer with the gateway's head.
Pc11Driver == [Imx6Driver EXCEPT !.head = FromGateway, !.whole = FALSE]
Pc11PageA == \h0047

\* GIS/PCB box
BoxDriver ==
  [Imx6Driver EXCEPT !.head = FromGateway, !.whole = FALSE, !.adc = \hFEFF,
                     !.sync = \hFC05, !.preamble = <<\h004D, \hFC05>>]

Imx6 == INSTANCE A7139 WITH Driver <- Imx6Driver
V10 == INSTANCE A7139 WITH Driver <- V10Driver
M8 == INSTANCE A7139 WITH Driver <- M8Driver
Pa48 == INSTANCE A7139 WITH Driver <- Pa48Driver
Pc11 == INSTANCE A7139 WITH Driver <- [Pc11Driver EXCEPT !.gio = Pc11PageA]
Box == INSTANCE A7139 WITH Driver <- BoxDriver

radiosVars == <<board, chip, ready, given, calls, fifo, buf>>

RadiosInit == board \in Boards /\ Imx6!RadioInit

RadiosNext ==
  /\ \/ board = "imx6" /\ Imx6!RadioNext
     \/ board = "v10" /\ V10!RadioNext
     \/ board = "m8" /\ M8!RadioNext
     \/ board = "pa48" /\ Pa48!RadioNext
     \/ board = "pc11" /\ Pc11!RadioNext
     \/ board = "box" /\ Box!RadioNext
  /\ UNCHANGED board

-----------------------------------------------------------------------------
\* A7139's properties, of each board's driver.
RadiosTypeOK == board \in Boards /\ Imx6!RadioTypeOK

\* Each driver leaves the radio as its own table says (AsConfigured of A7139).
EachAsConfigured ==
  /\ board = "imx6" => Imx6!AsConfigured
  /\ board = "v10" => V10!AsConfigured
  /\ board = "m8" => M8!AsConfigured
  /\ board = "pa48" => Pa48!AsConfigured
  /\ board = "pc11" => Pc11!AsConfigured
  /\ board = "box" => Box!AsConfigured

\* Each sleeps on a calibrated oscillator only (SleepsCalibrated of A7139).
EachSleepsCalibrated == Imx6!SleepsCalibrated

\* Each reads what came (ReadIsWhatCame of A7139).
EachReadsWhatCame ==
  /\ board = "imx6" => Imx6!ReadIsWhatCame
  /\ board = "v10" => V10!ReadIsWhatCame
  /\ board = "m8" => M8!ReadIsWhatCame
  /\ board = "pa48" => Pa48!ReadIsWhatCame
  /\ board = "pc11" => Pc11!ReadIsWhatCame
  /\ board = "box" => Box!ReadIsWhatCame
=============================================================================
