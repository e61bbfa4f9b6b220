------------------------------- MODULE Track --------------------------------
(***************************************************************************)
(* What a satellite receiver says, on its way to a row of the database: the    *)
(* box packs the text of its fields in half bytes (GIS/PCB .../GDE0213B1/      *)
(* public.c), GisInfo of the GIS server unpacks them (GIS/server/src/robot.c). *)
(* Characters are their codes.  The degrees are kept exact here: the server    *)
(* computes them in a float, which rounds behind the seventh figure.           *)
(***************************************************************************)
EXTENDS Integers, Sequences, SequencesExt

CONSTANTS
  Degrees, Minutes, Parts,   \* of a position: degrees, minutes, and their sixth decimals
  Knots, Courses             \* in tenths

VARIABLES
  fix,    \* what the receiver said, as numbers
  track   \* what the server made of it

trackVars == <<fix, track>>

Dot == 46
\* The n decimal figures of a number, and the text they make.
Figures(v, n) == [k \in 1..n |-> (v \div 10^(n - k)) % 10]
Text_(v, n) == [k \in 1..n |-> 48 + Figures(v, n)[k]]

-----------------------------------------------------------------------------
(* The box                                                                 *)

\* The value of a character; behind the end of a text there are zeros.
ocHex(src, k) == IF k < Len(src) /\ src[k + 1] \in 48..57 THEN src[k + 1] - 48 ELSE 0
two(src, k) == ocHex(src, k) * 16 + ocHex(src, k + 1)
dotAt(src, n) == LET at == {k \in 0..n-1 : k < Len(src) /\ src[k + 1] = Dot}
                 IN  IF at = {} THEN n ELSE CHOOSE k \in at : \A l \in at : k <= l

\* A latitude is ddmm.mmmmmm, a longitude dddmm.mmmmmm.
Str2Hex(src) ==
  CASE dotAt(src, 12) = 5 ->
         <<ocHex(src, 0) * 100 + ocHex(src, 1) * 10 + ocHex(src, 2),
           two(src, 3), two(src, 6), two(src, 8), two(src, 10)>>
    [] dotAt(src, 12) = 4 ->
         <<ocHex(src, 0) * 10 + ocHex(src, 1), two(src, 2), two(src, 5), two(src, 7), two(src, 9)>>
    [] OTHER -> <<0, 0, 0, 0, 0>>

\* One to three figures, a dot and one more.
GetSpeed(src) ==
  LET v(k) == ocHex(src, k)
  IN  CASE dotAt(src, 4) = 0 -> <<0, 0>>
        [] dotAt(src, 4) = 1 -> <<0, v(0) * 16 + v(2)>>
        [] dotAt(src, 4) = 2 -> <<v(0), v(1) * 16 + v(3)>>
        [] dotAt(src, 4) = 3 -> <<v(0) * 16 + v(1), v(2) * 16 + v(4)>>
        [] OTHER             -> <<\hFF, \hFF>>

\* The figures before the dot, which is looked for in the first three.
GetDirc(src) ==
  LET v(k) == ocHex(src, k)
  IN  CASE dotAt(src, 3) = 1 -> <<0, v(0) * 16>>
        [] dotAt(src, 3) = 2 -> <<v(0), v(1) * 16>>
        [] dotAt(src, 3) = 3 -> <<v(0) * 16 + v(1), v(2) * 16>>
        [] OTHER             -> <<\hFF, \hF0>>

-----------------------------------------------------------------------------
(* The server                                                              *)

\* A half byte as a figure: those above nine are zeros.
tab(h) == IF h < 10 THEN h ELSE 0
minutes(b) == <<tab(b[2] \div 16), tab(b[2] % 16), tab(b[3] \div 16), tab(b[3] % 16),
                tab(b[4] \div 16), tab(b[4] % 16), tab(b[5] \div 16), tab(b[5] % 16)>>

\* The row is stored with the latitude in the column of the longitude, sms.c:43.
GisInfo(pack) ==
  [lat   |-> <<pack[4]>> \o minutes(SubSeq(pack, 4, 8)),
   lon   |-> <<pack[9]>> \o minutes(SubSeq(pack, 9, 13)),
   speed |-> <<pack[20] \div 16, pack[20] % 16, pack[21] \div 16, pack[21] % 16>>,
   dir   |-> (pack[22] \div 16) * 100 + (pack[22] % 16) * 10 + pack[23] \div 16]

-----------------------------------------------------------------------------
(* A fix, its texts, its packet                                            *)

\* The receiver writes minutes and course with leading figures as they are needed.
Latitude(d, m, p)  == Text_(d, 2) \o Text_(m, 2) \o <<Dot>> \o Text_(p, 6)
Longitude(d, m, p) == Text_(d, 3) \o Text_(m, 2) \o <<Dot>> \o Text_(p, 6)
Tenths(v) == LET n == IF v < 100 THEN 1 ELSE IF v < 1000 THEN 2 ELSE 3
             IN  Text_(v \div 10, n) \o <<Dot>> \o Text_(v % 10, 1)

Packet(f) ==
  <<\hFE, 24, 2>> \o Str2Hex(Latitude(f.d % 90, f.m, f.p)) \o Str2Hex(Longitude(f.d, f.m, f.p))
    \o <<0, 0, 0, 0, 0, 0>> \o GetSpeed(Tenths(f.v)) \o GetDirc(Tenths(f.c)) \o <<\hFF>>

NoFix == [d |-> 0, m |-> 0, p |-> 0, v |-> 0, c |-> 0]
TrackInit == fix = NoFix /\ track = GisInfo(Packet(NoFix))
Reported ==
  /\ fix = NoFix
  /\ \E d \in Degrees, m \in Minutes, p \in Parts, v \in Knots, c \in Courses :
       /\ fix' = [d |-> d, m |-> m, p |-> p, v |-> v, c |-> c]
       /\ track' = GisInfo(Packet(fix'))
Rest == fix # NoFix /\ fix' = NoFix /\ track' = GisInfo(Packet(NoFix))
TrackNext == Reported \/ Rest

TrackSpec == TrackInit /\ [][TrackNext]_trackVars

\* The position that GisInfo computes with is the receiver's: degrees and the eight
\* figures of the minutes, though the box packs a latitude and a longitude from texts
\* of different lengths and keeps the degrees binary (public.c:107-139, robot.c:93-124).
PositionKept ==
  LET m == Figures(fix.m, 2) \o Figures(fix.p, 6)
  IN  /\ track.lat = <<fix.d % 90>> \o m
      /\ track.lon = <<fix.d>> \o m

\* So are speed and course, whatever number of figures they have (public.c:29-94,
\* robot.c:125-131); of the course the tenths are dropped.
MotionKept ==
  /\ track.speed = Figures(fix.v, 4)
  /\ track.dir = fix.c \div 10
=============================================================================
