------------------------------ MODULE Wiegand ------------------------------
(***************************************************************************)
(* RFID/motherboard/BER/src/main.c: between an RFID reader and the controllers *)
(* of up to four doors.  The receive interrupt collects a frame of the reader, *)
(* the main loop checks it and sends the last four bytes of the tag's EPC to     *)
(* the door of its antenna as 34 Wiegand bits.  Bytes that come while a frame    *)
(* waits for the main loop are not stored; what starts a frame then is whatever   *)
(* byte 0xA0 comes first.                                                   *)
(***************************************************************************)
EXTENDS Integers, Sequences, SequencesExt, FiniteSets

CONSTANTS
  Tags,      \* what a tag's frame reports: its antenna and the bytes of its EPC
  Others,    \* other frames of the reader: sequences of bytes
  MaxLost    \* bound on the bytes that are lost on the line

VARIABLES
  wpc,       \* the main loop
  start, zLen, U0Ready, U0Count, U0Buf,   \* shared with the interrupt
  cable,     \* bytes on their way
  lost,      \* bytes lost so far
  line,      \* tags the reader reported that no door was told of
  due,       \* a whole frame of a tag is coming to an idle board
  spliced,   \* a byte 0xA0 of an EPC was lost since the last frame was checked
  pulses     \* what is sent: the door and its bits

wiegandVars == <<wpc, start, zLen, U0Ready, U0Count, U0Buf, cable, lost, line, due, spliced, pulses>>

Sum(bytes) == FoldLeft(LAMBDA a, b : (a + b) % 256, 0, bytes)

\* The two's complement of the sum.
CheckSum(bytes) == (256 - Sum(bytes)) % 256

TagFrame(t) ==
  LET body == <<\hA0, 19, 1, \h89, t.ant, 48, 0>> \o t.epc \o <<70>>
  IN  body \o <<CheckSum(body)>>

Silent == [door |-> 0, bits |-> <<>>]

BoardInit ==
  /\ wpc = "top"
  /\ start = FALSE /\ zLen = 0 /\ U0Ready = FALSE /\ U0Count = 0
  /\ U0Buf = [i \in 0..31 |-> 0]
  /\ cable = <<>> /\ lost = 0 /\ line = {} /\ due = FALSE /\ spliced = FALSE
  /\ pulses = Silent

-----------------------------------------------------------------------------
(* Reader and line                                                         *)

BoardIdle == wpc = "top" /\ ~start /\ ~U0Ready /\ U0Count = 0

ReportTag(t) ==
  /\ cable = <<>>
  /\ cable' = TagFrame(t)
  /\ line' = line \cup {t}
  /\ due' = (due \/ BoardIdle)
  /\ UNCHANGED <<wpc, start, zLen, U0Ready, U0Count, U0Buf, lost, spliced, pulses>>

SendOther(f) ==
  /\ cable = <<>>
  /\ cable' = f
  /\ UNCHANGED <<wpc, start, zLen, U0Ready, U0Count, U0Buf, lost, line, due, spliced, pulses>>

\* When 0xA0 of an EPC is lost, the first byte of the next frame stands in for it in
\* the sum.
LoseByte ==
  /\ cable # <<>> /\ lost < MaxLost
  /\ cable' = Tail(cable)
  /\ lost' = lost + 1
  /\ due' = FALSE
  /\ spliced' = (spliced \/ (Head(cable) = \hA0 /\ Len(cable) <= 15))
  /\ UNCHANGED <<wpc, start, zLen, U0Ready, U0Count, U0Buf, line, pulses>>

-----------------------------------------------------------------------------
(* USART_RX_vect                                                           *)

\* What the interrupt leaves of start, zLen, U0Ready and U0Count after it has
\* stored the byte w, n the new count.
Collected(w, n) ==
  CASE n = zLen /\ n > 15 -> <<FALSE, 0, TRUE, n>>
    [] n = zLen /\ n <= 15 -> <<FALSE, 0, U0Ready, 0>>
    [] n # zLen /\ n = 2 /\ w < 20 -> <<TRUE, w + 2, U0Ready, n>>
    [] n # zLen /\ n = 2 /\ w >= 20 -> <<FALSE, zLen, U0Ready, 0>>
    [] OTHER -> <<TRUE, zLen, U0Ready, n>>

Store(c) == start' = c[1] /\ zLen' = c[2] /\ U0Ready' = c[3] /\ U0Count' = c[4]

\* Between two stores of the main loop the interrupt runs once at most.
Receive ==
  /\ cable # <<>> /\ wpc # "last"
  /\ wpc' = IF wpc = "count" THEN "last" ELSE wpc
  /\ cable' = Tail(cable)
  /\ LET w == Head(cable)
         on == start \/ (w = \hA0 /\ ~U0Ready)
     IN  IF on
           THEN /\ U0Buf' = [U0Buf EXCEPT ![U0Count] = w]
                /\ Store(Collected(w, U0Count + 1))
           ELSE UNCHANGED <<start, zLen, U0Ready, U0Count, U0Buf>>
  /\ UNCHANGED <<lost, line, due, spliced, pulses>>

-----------------------------------------------------------------------------
(* The main loop                                                           *)

\* U0Buf[a] to U0Buf[b]
Bytes(a, b) == [i \in 1..b - a + 1 |-> U0Buf[a + i - 1]]

\* Mutant: the sum is not compared.
CheckFrameLength ==
  /\ wpc = "top" /\ U0Ready
  /\ wpc' = IF U0Count > 19 THEN "send" ELSE "clear"
  /\ UNCHANGED <<start, zLen, U0Ready, U0Count, U0Buf, cable, lost, line, due, spliced, pulses>>

CheckFrame ==
  /\ wpc = "top" /\ U0Ready
  /\ wpc' = IF U0Count > 19 /\ U0Buf[U0Count - 1] = CheckSum(Bytes(0, U0Count - 2))
              THEN "send" ELSE "clear"
  /\ UNCHANGED <<start, zLen, U0Ready, U0Count, U0Buf, cable, lost, line, due, spliced, pulses>>

BitsOf(byte) == [j \in 1..8 |-> (byte \div 2^(8 - j)) % 2]
Ones(bits) == Cardinality({i \in DOMAIN bits : bits[i] = 1})

\* The exclusive or of two bytes, folded to one bit.
Parity(a, b) == (Ones(BitsOf(a)) + Ones(BitsOf(b))) % 2

\* 32 bits between one for even parity of the first half and one for odd parity
\* of the second.
send_wiegand34(wg) ==
  <<Parity(wg[1], wg[2])>> \o FlattenSeq([i \in 1..4 |-> BitsOf(wg[i])])
  \o <<1 - Parity(wg[3], wg[4])>>

\* A pulse for each bit, on one of the two wires of the door.  Nothing is
\* received meanwhile.
Send ==
  /\ wpc = "send"
  /\ pulses' = [door |-> U0Buf[4] % 4, bits |-> send_wiegand34(Bytes(15, 18))]
  /\ line' = {t \in line : t.ant # U0Buf[4] \/ t.epc # Bytes(7, 18) \/ cable # <<>>}
  /\ due' = FALSE
  /\ wpc' = "clear"
  /\ UNCHANGED <<start, zLen, U0Ready, U0Count, U0Buf, cable, lost, spliced>>

\* U0Count = U0Ready = 0 stores U0Ready first.
ClearReady ==
  /\ wpc = "clear"
  /\ U0Ready' = FALSE
  /\ wpc' = "count"
  /\ pulses' = Silent
  /\ spliced' = FALSE
  /\ UNCHANGED <<start, zLen, U0Count, U0Buf, cable, lost, line, due>>

ClearCount ==
  /\ wpc \in {"count", "last"}
  /\ U0Count' = 0
  /\ wpc' = "top"
  /\ UNCHANGED <<start, zLen, U0Ready, U0Buf, cable, lost, line, due, spliced, pulses>>

BoardMain == CheckFrame \/ Send \/ ClearReady \/ ClearCount

BoardNext ==
  \/ \E t \in Tags : ReportTag(t)
  \/ \E f \in Others : SendOther(f)
  \/ LoseByte
  \/ Receive
  \/ BoardMain

-----------------------------------------------------------------------------
\* A door is told a number that the reader has reported for its antenna and that
\* was not told before, with right parities, though bytes are lost, frames are
\* missed and a frame may start at the count of the one before (main.c:79-109,
\* 186-241, 271-286).  A frame of two reports, of which the first lost 0xA0, may
\* pass the sum: what it tells has right parities and is not said to be reported.
ToldIsReported ==
  [][wpc = "send" /\ wpc' # "send" =>
       LET bits == pulses'.bits
           half(a, b) == Ones(SubSeq(bits, a, b)) % 2
       IN  /\ spliced \/ \E t \in line :
                /\ t.ant % 4 = pulses'.door
                /\ \A i \in 1..4 : SubSeq(bits, 8*i - 6, 8*i + 1) = BitsOf(t.epc[i + 8])
           /\ half(1, 17) = 0 /\ half(18, 34) = 1]_wiegandVars

\* A tag whose frame comes whole to an idle board is told (main.c:79-109, 271-286).
WholeFrameTold == due ~> ~due

\* The interrupt stays inside its buffer (main.c:76, 89) as long as no byte 0xA0 is
\* taken for a start before a byte 0: then zLen is 2 when two bytes are there, and
\* the count passes it.
InsideBuffer == U0Count \in 0..31
=============================================================================
