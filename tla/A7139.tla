-------------------------------- MODULE A7139 --------------------------------
(***************************************************************************)
(* RFID/gateway-imx6/A7139.c: the driver of the A7139 radio, of which each board *)
(* has a copy of its own (see Radios).  A call shifts                        *)
(* commands and register words over a three-wire bus; sixteen more registers  *)
(* hide behind each of the two page registers, chosen by bits of CRYSTAL_REG. *)
(* A call is one step: nothing else uses the bus.  The chip is external: it   *)
(* stores what it is sent and ends each calibration as it likes.              *)
(***************************************************************************)
EXTENDS Integers, Sequences, SequencesExt, Bitwise, TLC

CONSTANTS
  Driver,    \* what differs between the copies of this file: [head: of the packets it
             \* takes, whole: are head and length stored, gio: in the table, adc: the
             \* mask of GetRSSI, rssi: how many values it can give, sync: WOR1 of
             \* BySync, preamble: GIO and WOR1 of ByPreamble]
  Freq,      \* the frequencies of A7139_Init, in kHz
  Lens,      \* packet lengths
  Rates,     \* data rates in kbps, good and bad
  Levels,    \* power levels, good and bad
  Packets,   \* what the receive FIFO may hold: sequences of bytes
  Counts,    \* NUMLH: what a calibration of the RC oscillator may count
  MaxCalls   \* bound on the calls after A7139_Init

VARIABLES
  chip,      \* the registers of the radio
  ready,     \* A7139_Init has returned 0
  given,     \* the last call and its value
  calls,     \* how many calls there were since A7139_Init
  fifo,      \* the packet in the receive FIFO
  buf        \* the receive buffer of the program

Word == 0..65535

\* Register addresses.
Reg == [SYSTEMCLOCK |-> 0, PLL1 |-> 1, PLL2 |-> 2, PLL3 |-> 3, PLL4 |-> 4, PLL6 |-> 6,
        CRYSTAL |-> 7, PAGEA |-> 8, PAGEB |-> 9, RX1 |-> 10, ADC |-> 12, PIN |-> 13,
        MODE |-> 15]
PgA == [TX1 |-> 0, WOR1 |-> 1, WOR2 |-> 2, PM |-> 4, GIO |-> 8, VCB |-> 10,
        FIFO |-> 13, WCAL |-> 15]
PgB == [TX2 |-> 0, IF2 |-> 2]

ERR_PARAM == 1
ERR_CAL == 4
ERR_RCOSC_CAL == 4

\* The words for 470 MHz, from address 0 on.
A7139Config ==
  <<\h1221, \h0A24, \hB805, \h0000, \h0A20, \h0024, \h0000, \h0011,
    \h0000, \h0000, \h18D4, \h7009, \h4400, \h0800, \h4C45, \h20C0>>
A7139Config_PageA ==
  <<\hF706, \h0000, \hF800, \h1107, \h9970, \h0201, \h400F, \h2AC0,
    Driver.gio, \hD281, \h0004, \h0825, \h0127, \h000F, \h155F, \h0000>>
A7139Config_PageB == <<\h035F, \h8400, \h0000, \h0000, \h0000>>

Config(a) == A7139Config[a + 1]
ConfigA(p) == A7139Config_PageA[p + 1]
ConfigB(p) == A7139Config_PageB[p + 1]

RadioInit ==
  /\ chip = [reg |-> [a \in 0..15 |-> 0], pageA |-> [p \in 0..15 |-> 0],
             pageB |-> [p \in 0..7 |-> 0]]
  /\ ready = FALSE /\ given = <<"none", 0>> /\ calls = 0 /\ fifo = <<>>
  /\ buf = [i \in 1..16 |-> 0]

-----------------------------------------------------------------------------
(* The bus                                                                 *)

\* SPIx_WriteByte and SPIx_WriteWord: bits leave from the highest on.
SPIx_Write(v, n) == [i \in 1..n |-> (v \div 2^(n - i)) % 2]

\* SPIx_ReadByte, SPIx_ReadWord, and what the chip makes of the bits.
SPIx_Read(bits) ==
  LET v[n \in 0..Len(bits)] == IF n = 0 THEN 0 ELSE 2 * v[n - 1] + bits[n]
  IN  v[Len(bits)]

\* The chip takes an address and a word; the pages of CRYSTAL_REG are chosen by
\* its bits 15..12 and 9..7.
Take(c, bits) ==
  LET a == SPIx_Read(SubSeq(bits, 1, 8))
      v == SPIx_Read(SubSeq(bits, 9, 24))
  IN  CASE a = Reg.PAGEA -> [c EXCEPT !.pageA[c.reg[Reg.CRYSTAL] \div 2^12] = v]
        [] a = Reg.PAGEB -> [c EXCEPT !.pageB[(c.reg[Reg.CRYSTAL] \div 2^7) % 8] = v]
        [] OTHER -> [c EXCEPT !.reg[a] = v]

\* A register write <<a, v>> on the bus; CMD_Reg_W is 0.
A7139_WriteReg(c, w) == Take(c, SPIx_Write(w[1], 8) \o SPIx_Write(w[2], 16))

\* Several of them, in order: the first half, then the other.  The comparison has TLC
\* evaluate the first half first.
RECURSIVE Writes(_, _)
Writes(c, ws) ==
  IF Len(ws) <= 1 THEN IF ws = <<>> THEN c ELSE A7139_WriteReg(c, ws[1])
  ELSE LET h == Len(ws) \div 2
           d == Writes(c, SubSeq(ws, 1, h))
           rest == SubSeq(ws, h + 1, Len(ws))
       IN  IF d = c THEN Writes(c, rest) ELSE Writes(d, rest)

A7139_ReadReg(c, a) == SPIx_Read(SPIx_Write(c.reg[a], 16))

\* Mutant: page A's address is shifted like page B's.
WritePageAShort(p, v) ==
  <<<<Reg.CRYSTAL, (p * 2^7) | Config(Reg.CRYSTAL)>>, <<Reg.PAGEA, v>>>>

A7139_WritePageA(p, v) ==
  <<<<Reg.CRYSTAL, (p * 2^12) | Config(Reg.CRYSTAL)>>, <<Reg.PAGEA, v>>>>

A7139_WritePageB(p, v) ==
  <<<<Reg.CRYSTAL, (p * 2^7) | Config(Reg.CRYSTAL)>>, <<Reg.PAGEB, v>>>>

\* A read of page A leaves its page chosen.
A7139_ReadPageA(p) == <<<<Reg.CRYSTAL, (p * 2^12) | Config(Reg.CRYSTAL)>>>>

-----------------------------------------------------------------------------
(* A7139_Init and what it calls                                            *)

A7139_Config ==
  [i \in 1..14 |-> LET a == IF i <= 8 THEN i - 1 ELSE i + 1 IN <<a, Config(a)>>]
  \o FlattenSeq([i \in 1..16 |-> A7139_WritePageA(i - 1, ConfigA(i - 1))])
  \o FlattenSeq([i \in 1..5 |-> A7139_WritePageB(i - 1, ConfigB(i - 1))])

\* khz = 12800 * (integer part + fraction / 65536)
A7139_SetFreq(khz) ==
  <<<<Reg.PLL3, Config(Reg.PLL3) & \h7FFF>>,
    <<Reg.PLL6, Config(Reg.PLL6) & \h0FFF>>,
    <<Reg.PLL4, IF khz < 860000 THEN Config(Reg.PLL4) & \hEFFF
                                ELSE Config(Reg.PLL4) | \h1000>>,
    <<Reg.PLL1, (Config(Reg.PLL1) & \hFF00) | (khz \div 12800)>>,
    <<Reg.PLL2, ((khz % 12800) * 512) \div 100>>>>
  \o A7139_WritePageB(PgB.IF2, 0)

\* The bits that start a calibration are cleared by the chip when it is over.
Calibrate(bits) ==
  <<<<Reg.MODE, Config(Reg.MODE) | bits>>, <<Reg.MODE, Config(Reg.MODE)>>>>

\* The calibration of RSSI borrows three registers.
RssiCal ==
  <<<<Reg.ADC, \h4C00>>>>
  \o A7139_WritePageA(PgA.WOR2, \hF800)
  \o A7139_WritePageA(PgA.TX1, ConfigA(PgA.TX1) | \hE000)
  \o Calibrate(\h1000)
  \o <<<<Reg.ADC, Config(Reg.ADC)>>>>
  \o A7139_WritePageA(PgA.WOR2, ConfigA(PgA.WOR2))
  \o A7139_WritePageA(PgA.TX1, ConfigA(PgA.TX1))

\* The writes of A7139_Cal and its value, for the flags the chip raises.
A7139_Cal(flags) ==
  LET filter == Calibrate(\h0802)
      vco == filter \o A7139_ReadPageA(PgA.VCB)
  IN  CASE flags.fbcf -> [writes |-> filter, value |-> ERR_CAL]
        [] ~flags.fbcf /\ flags.vccf -> [writes |-> vco, value |-> ERR_CAL]
        [] OTHER -> [writes |-> vco \o RssiCal \o Calibrate(\h0004),
                     value |-> IF flags.vbcf THEN ERR_CAL ELSE 0]

\* The programs call it until it succeeds.
A7139_Init(khz) ==
  /\ ~ready
  /\ \E flags \in [{"fbcf", "vccf", "vbcf"} -> BOOLEAN] :
       LET cal == A7139_Cal(flags)
       IN  /\ chip' = Writes(chip, A7139_Config \o A7139_SetFreq(khz) \o cal.writes)
           /\ given' = <<"Init", cal.value>>
           /\ ready' = (cal.value = 0)
  /\ UNCHANGED <<calls, fifo, buf>>

-----------------------------------------------------------------------------
(* Settings                                                                *)

Set(call, ws, value) ==
  /\ ready /\ calls < MaxCalls
  /\ calls' = calls + 1
  /\ chip' = Writes(chip, ws)
  /\ given' = <<call, value>>
  /\ UNCHANGED <<ready, fifo, buf>>

\* The clock and the filter of a data rate.
RateWords == 2 :> <<\h3023, \h18D0>> @@ 10 :> <<\h0823, \h18D0>>
             @@ 50 :> <<\h0023, \h18D0>> @@ 100 :> <<\h0021, \h18D4>>

A7139_SetDataRate(rate) ==
  LET xtal(bit) == <<<<Reg.CRYSTAL, (Config(Reg.CRYSTAL) & \hFFFE) | bit>>>>
  IN  CASE rate \in DOMAIN RateWords ->
             Set("rate", xtal(0) \o <<<<Reg.SYSTEMCLOCK, RateWords[rate][1]>>,
                              <<Reg.RX1, RateWords[rate][2]>>>> \o xtal(1), 0)
        [] rate = 150 -> Set("rate", xtal(0) \o xtal(1), 0)
        [] OTHER -> Set("rate", xtal(0) \o xtal(1), ERR_PARAM)

A7139_SetPackLen(len) ==
  Set("length", A7139_WritePageA(PgA.FIFO, (ConfigA(PgA.FIFO) & \hFF00) | (len - 1))
      \o A7139_WritePageA(PgA.VCB, ConfigA(PgA.VCB) & \hC0FF), 0)

\* VBD, bit 7 of WOR1, says whether the voltage is above the threshold.
A7139_IsBatteryLow(low2_x) ==
  \/ low2_x > 7 /\ Set("battery", <<>>, ERR_PARAM)
  \/ /\ low2_x \in 0..7
     /\ \E vbd \in {0, 1} :
          Set("battery", A7139_WritePageA(PgA.PM, (Config(PgA.PM) & \hFFF0) | (low2_x * 2) | 1)
              \o A7139_ReadPageA(PgA.WOR1), 1 - vbd)

\* t_retry wraps to 65535 at a timeout, so RX2_REG is read whatever happened.
A7139_GetRSSI ==
  \E rssi \in {0, 511} :
    Set("rssi", <<<<Reg.ADC, Config(Reg.ADC) & Driver.adc>>,
          <<Reg.MODE, A7139_ReadReg(chip, Reg.MODE) | 1>>,
          <<Reg.MODE, A7139_ReadReg(chip, Reg.MODE)>>>>, rssi % Driver.rssi)

PowerWord == <<\h01, \h09, \h0A, \h61, \h2A, \h1C, \h26, \h3E, \h5F>>

A7139_SetPowerLevel(pwrLev) ==
  IF pwrLev \in 0..8
    THEN Set("power", A7139_WritePageB(PgB.TX2, (ConfigB(PgB.TX2) & \hFF80) | PowerWord[pwrLev + 1]), 0)
    ELSE Set("power", <<>>, ERR_PARAM)

\* The identifier of the chip.
A7139_ReadPID == Set("pid", <<<<Reg.CRYSTAL, Config(Reg.CRYSTAL) & \hF7CF>>>>, 0)

-----------------------------------------------------------------------------
(* Sleep                                                                   *)

\* After up to 256 tries, the last of which counted n.
A7139_RCOSC_Cal(n) ==
  A7139_WritePageA(PgA.WOR2, ConfigA(PgA.WOR2) | \h0010)
  \o A7139_WritePageA(PgA.WCAL, 2 * n)

RcoscOk(n) == n > 186 /\ n < 198

WorEnable == <<<<Reg.MODE, Config(Reg.MODE) | \h0200>>>>

\* The three ways to sleep: what is written before the calibration and after it.
Sleep(before, after) ==
  \E n \in Counts :
    IF RcoscOk(n) THEN Set("sleep", before \o A7139_RCOSC_Cal(n) \o after \o WorEnable, 0)
                  ELSE Set("sleep", before \o A7139_RCOSC_Cal(n), ERR_RCOSC_CAL)

A7139_WOT ==
  Sleep(<<>>, A7139_WritePageA(PgA.GIO, \h0045) \o A7139_WritePageA(PgA.WOR1, \h027F)
              \o <<<<Reg.PIN, Config(Reg.PIN) | \h0400>>>>)

A7139_WOR_BySync ==
  Sleep(A7139_WritePageA(PgA.GIO, \h0045) \o A7139_WritePageA(PgA.WOR1, Driver.sync),
        A7139_WritePageA(PgA.WOR2, ConfigA(PgA.WOR2) | \h0010))

A7139_WOR_ByPreamble ==
  Sleep(A7139_WritePageA(PgA.GIO, Driver.preamble[1])
          \o A7139_WritePageA(PgA.WOR1, Driver.preamble[2]),
        A7139_WritePageA(PgA.WOR2, ConfigA(PgA.WOR2) | \h0030))

-----------------------------------------------------------------------------
(* Packets                                                                 *)

PacketComes(p) ==
  /\ ready
  /\ given' = <<"packet", 0>>
  /\ fifo' = p
  /\ UNCHANGED <<chip, ready, calls, buf>>

\* The bytes behind the length that a read takes, and what it stores: a length of 16
\* and more is returned, but nothing behind it is read.
Unpack ==
  LET len == IF fifo[1] = Driver.head THEN fifo[2] ELSE 0
      read == IF len \in 1..15 THEN SubSeq(fifo, 3, IF Driver.whole THEN len ELSE len + 2) ELSE <<>>
  IN  [len |-> len,
       bytes |-> IF Driver.whole /\ fifo[1] = Driver.head THEN SubSeq(fifo, 1, 2) \o read ELSE read]

A7139_ReadFIFO ==
  /\ given[1] = "packet"
  /\ buf' = [i \in 1..16 |-> IF i <= Len(Unpack.bytes) THEN Unpack.bytes[i] ELSE buf[i]]
  /\ given' = <<"read", Unpack.len>>
  /\ UNCHANGED <<chip, ready, calls, fifo>>

RadioNext ==
  \/ \E khz \in Freq : A7139_Init(khz)
  \/ \E rate \in Rates : A7139_SetDataRate(rate)
  \/ \E len \in Lens : A7139_SetPackLen(len)
  \/ \E v \in {3, 8} : A7139_IsBatteryLow(v)
  \/ \E pwrLev \in Levels : A7139_SetPowerLevel(pwrLev)
  \/ A7139_GetRSSI \/ A7139_ReadPID
  \/ A7139_WOT \/ A7139_WOR_BySync \/ A7139_WOR_ByPreamble
  \/ \E p \in Packets : PacketComes(p)
  \/ A7139_ReadFIFO

-----------------------------------------------------------------------------
RadioTypeOK ==
  /\ chip \in [reg : [0..15 -> Word], pageA : [0..15 -> Word], pageB : [0..7 -> Word]]
  /\ buf \in [1..16 -> 0..255]

\* The bits of a register that a setting may change; ReadPID clears bit 4 of
\* CRYSTAL_REG until a page is chosen again, IsBatteryLow takes PM's other bits
\* from the wrong table.
RegFree(a) ==
  CASE a = Reg.CRYSTAL -> \hFF90
    [] a = Reg.MODE -> \h0200
    [] a = Reg.PIN -> \h0400
    [] a \in {Reg.SYSTEMCLOCK, Reg.RX1, Reg.PAGEA, Reg.PAGEB} -> \hFFFF
    [] OTHER -> 0
PageAFree(p) ==
  CASE p = PgA.WOR2 -> \h0030
    [] p = PgA.FIFO -> \h00FF
    [] p \in {PgA.WOR1, PgA.GIO, PgA.WCAL, PgA.PM} -> \hFFFF
    [] OTHER -> 0
PageBFree(p) == IF p = PgB.TX2 THEN \h007F ELSE 0

SameBut(v, w, free) == v = w \/ v & (65535 - free) = w & (65535 - free)

\* Whatever is called once the radio is up, in any order, each register keeps
\* its configured word but for the bits of the settings: the calibration gives
\* back the registers it borrows (A7139.c:179-190), the frequency 470.001 MHz is
\* the table's (558), a page is never written for another (110-126), and the
\* crystal runs (315-380).
AsConfigured ==
  ready =>
    /\ \A a \in 0..15 : SameBut(chip.reg[a], Config(a), RegFree(a))
    /\ \A p \in 0..15 : SameBut(chip.pageA[p], ConfigA(p), PageAFree(p))
    /\ \A p \in 0..4 : SameBut(chip.pageB[p], ConfigB(p), PageBFree(p))

\* A call that puts the radio to sleep and says so has calibrated the oscillator
\* that wakes it, which runs (A7139.c:236-254, 465-512).
SleepsCalibrated ==
  given = <<"sleep", 0>> =>
    /\ RcoscOk(chip.pageA[PgA.WCAL] \div 2)
    /\ chip.pageA[PgA.WOR2] & \h0010 # 0
    /\ chip.reg[Reg.MODE] & \h0200 # 0

\* A length below 16 comes with that many bytes of the packet, from its head on or
\* from what is behind the length (A7139.c:394-417).
ReadIsWhatCame ==
  given[1] = "read" /\ given[2] \in 2..15 =>
    \A i \in 1..given[2] : buf[i] = fifo[IF Driver.whole THEN i ELSE i + 2]
=============================================================================
