------------------------------ MODULE Display -------------------------------
(***************************************************************************)
(* The thermometer and the electronic paper of the GIS box (GIS/PCB/AUTO/NOGPS *)
(* /V1.1/SRC/GDE0213B1): GetTemper of 18B20.c, display and eLinkInit of main.c, *)
(* and what EPD_Dis_Part of Display_EPD_W21.c writes to the panel.             *)
(*                                                                         *)
(* The panel has 250 rows of 16 columns, eight dots each.  A digit is written   *)
(* as a window of the panel's memory, over whatever was there: display is right *)
(* only if each value wipes out the one before.  A cell of the panel is a pair: *)
(* the picture it belongs to and the place in it.  The panel shows its memory   *)
(* after an update.                                                        *)
(***************************************************************************)
EXTENDS Integers, Sequences, FiniteSets, TLC

CONSTANTS Readings    \* what the thermometer may hold: its 16 bits

VARIABLES
  reading,   \* the last reading, or NoReading
  panel,     \* row -> column -> cell
  shown      \* the numbers display was called with

displayVars == <<reading, panel, shown>>

NoReading == -1
xDot == 128
yDot == 250
Rows == 0..yDot - 1
Columns == 0..(xDot \div 8) - 1
\* The pictures beside those of the figures 0 to 9.
gWhite == 10
gMinus == 11
gT48 == 12
gDC6 == 13
gSignal == 14
gDot == 15
White == <<gWhite, 0>>

-----------------------------------------------------------------------------
(* Windows                                                                 *)

\* The bytes of a row, in a character: 249 dots are rounded up to 256 and wrap.
XSize(xStart, xEnd) ==
  LET dots == xEnd - xStart IN ((IF dots % 8 # 0 THEN dots + 8 - (dots % 8) ELSE dots) % 256) \div 8

\* The k-th byte of a picture; gWhite stands for a buffer full of 0xFF.
picture(name, k) == IF name = gWhite THEN White ELSE <<name, k>>

\* EPD_W21_WriteDispRam fills the window row by row from yEnd downwards.
EPD_Dis_Part(p, xStart, xEnd, yStart, yEnd, name) ==
  LET w == XSize(xStart, xEnd)
      first == xStart \div 8
  IN  [y \in Rows |-> [x \in Columns |->
         IF y \in yStart..yEnd /\ x \in first..first + w - 1
           THEN picture(name, ((yEnd - y) * w) + x - first)
           ELSE p[y][x]]]

\* EPD_Dis_Full with Label 0 writes white to all of it.
EPD_Dis_Full == [y \in Rows |-> [x \in Columns |-> White]]

-----------------------------------------------------------------------------
(* display: tens or minus, units, tenths                                   *)

\* The tens of a value; beside them the place of a minus.
WithTens(p, integ, ten) ==
  LET a == EPD_Dis_Part(p, 40, 111, 170, 225, ten)
  IN  EPD_Dis_Part(a, 64, 87, 226, 249, IF integ >= 0 THEN gWhite ELSE gMinus)

\* Without tens their place is wiped out, and a minus stands in it.
NoTens(p, integ) ==
  LET a == EPD_Dis_Part(p, 40, 111, 170, 225, gWhite)
      b == EPD_Dis_Part(a, 64, 87, 226, 249, gWhite)
  IN  IF integ < 0 THEN EPD_Dis_Part(b, 64, 87, 177, 200, gMinus) ELSE b

abs(v) == IF v < 0 THEN -v ELSE v

display(p, integ, dec) ==
  LET ten == (abs(integ) \div 10) % 10
      a == IF ten # 0 THEN WithTens(p, integ, ten) ELSE NoTens(p, integ)
      b == EPD_Dis_Part(a, 40, 111, 119, 174, abs(integ) % 10)
  IN  EPD_Dis_Part(b, 40, 111, 45, 100, dec % 10)

\* The frame of the display.  The window of line 186 has its limits exchanged: 249
\* dots wrap to no bytes, and nothing is written.
eLinkInit ==
  LET a == EPD_Dis_Part(EPD_Dis_Full, 0, 249, 0, 127, gWhite)
      b == EPD_Dis_Part(a, 64, 111, 0, 39, gT48)
      c == EPD_Dis_Part(b, 0, 39, 0, 82, gDC6)
      d == EPD_Dis_Part(c, 0, 39, 190, 249, gSignal)
      e == EPD_Dis_Part(d, 88, 111, 102, 113, gDot)
  IN  display(e, 0, 0)

-----------------------------------------------------------------------------
(* GetTemper                                                               *)

\* The whole degrees: three bits of the high byte, four of the low one.
Temper(h, l) == ((h % 8) * 16) + (l \div 16)

\* A reading below zero is complemented.  Whether Temp_L++ leaves the carry that is
\* then added to the high byte is the compiler's affair.
Complement(h, l, carry) == <<(255 - h + carry) % 256, (256 - l) % 256>>

GetTemper ==
  /\ \E r \in Readings, carry \in {0, 1} :
       LET h  == r \div 256
           l  == r % 256
           hl == IF (h \div 8) % 2 = 1 THEN Complement(h, l, carry) ELSE <<h, l>>
           integ == Temper(hl[1], hl[2])
           dec   == ((hl[2] % 16) * 625) \div 1000
       IN  /\ reading' = r
           /\ shown' = <<integ, dec>>
           /\ panel' = display(panel, integ, dec)

DisplayInit == reading = NoReading /\ panel = eLinkInit /\ shown = <<0, 0>>
DisplayNext == GetTemper
DisplaySpec == DisplayInit /\ [][DisplayNext]_displayVars

-----------------------------------------------------------------------------
(* Properties                                                              *)

\* What stands in a window of the panel, as the rows and bytes of a picture.
Window(x, w, yStart, yEnd) ==
  [k \in 0..((yEnd - yStart + 1) * w) - 1 |-> panel[yEnd - (k \div w)][x + (k % w)]]
Picture(name, n) == [k \in 0..n - 1 |-> <<name, k>>]

\* After every reading the panel shows the last two figures of its whole degrees and its
\* tenths, and nothing of the readings before: units and tenths are whole, the tens are
\* whole down to the row where the units begin or white, and the frame is untouched.  The
\* windows of the tens and of the minus lie over each other and over five rows of the
\* units.  The hundreds are not shown, and no minus: what stands there is the temperature
\* from 0 to 99.9 degrees only (main.c:122-174).
ShowsTheFigures ==
  LET integ == shown[1]
      tens  == IF (integ \div 10) % 10 = 0 THEN [k \in 0..503 |-> White]
                                           ELSE Picture((integ \div 10) % 10, 504)
  IN  /\ Window(5, 9, 119, 174) = Picture(integ % 10, 504)
      /\ Window(5, 9, 45, 100) = Picture(shown[2] % 10, 504)
      /\ \A k \in 0..(51 * 9) - 1 : Window(5, 9, 175, 225)[k] = tens[k]
      /\ Window(8, 3, 226, 249) = [k \in 0..71 |-> White]
      /\ Window(8, 6, 0, 39) = Picture(gT48, 240)
      /\ Window(0, 5, 0, 82) = Picture(gDC6, 415)
      /\ Window(0, 5, 190, 249) = Picture(gSignal, 300)

\* The amount of a temperature below zero in sixteenths, and what it becomes with the
\* wrong carry: 16 degrees more, or less when the low byte is 0.
Amounts(r) ==
  LET right == 65536 - r
  IN  {right, IF right % 256 = 0 THEN right - 256 ELSE right + 256}

InTenths(sixteenths) == (sixteenths * 10) \div 16

\* What display is called with is the temperature, cut to tenths of a degree, from zero up;
\* below zero it is the amount without its sign, or with the wrong carry 16 degrees beside
\* it (18B20.c:74-92).
ShownIsMeasured ==
  LET value == shown[1] * 10 + shown[2]
  IN  /\ reading \in 0..2047 => value = InTenths(reading)
      /\ reading \in 63488..65535 => \E v \in Amounts(reading) : value = InTenths(v % 2048)
=============================================================================
