-------------------------------- MODULE Text --------------------------------
(***************************************************************************)
(* server/src/public.c: the functions on strings, bytes and numbers of the      *)
(* servers, as operators on sequences of character codes.  A string ends with a  *)
(* zero that is not part of the sequence.  A state is a call.                   *)
(***************************************************************************)
EXTENDS Integers, Sequences, SequencesExt, FiniteSets

CONSTANTS
  Calls,     \* calls to check: [f |-> function, x |-> arguments]
  None       \* no call

VARIABLE call

TextInit == call = None
Call(c) == call = None /\ call' = c
Return == call # None /\ call' = None
TextNext == Return \/ \E c \in Calls : Call(c)

TextSpec == TextInit /\ [][TextNext]_call

\* c \in Calls with this function
Is(f) == call # None /\ call.f = f

\* The character after i others, 0 behind the end.
At(s, i) == IF i \in 0..Len(s) - 1 THEN s[i + 1] ELSE 0

\* n rounds of a loop whose body leaves a finished state alone.
Rounds(Body(_), s, n) == FoldLeft(LAMBDA t, i : Body(t), s, [i \in 1..n |-> i])

-----------------------------------------------------------------------------
(* Bytes and characters                                                    *)

\* Letters, digits, + and /; number 64 is the filler.
base64 ==
  [i \in 1..26 |-> 64 + i] \o [i \in 1..26 |-> 96 + i] \o [i \in 1..10 |-> 47 + i] \o <<43, 47, 61>>

\* Three bytes make four numbers of six bits, those without a byte are fillers.
\* Characters below 128: char is signed and indexes the table.
Sixes(src, i, k) ==
  LET a == At(src, i)  b == At(src, i + 1)  d == At(src, i + 2)
  IN  CASE k = 0 -> a \div 4
        [] k = 1 -> (a % 4) * 16 + (b \div 16)
        [] k = 2 -> IF i + 1 >= Len(src) THEN 64 ELSE (b % 16) * 4 + (d \div 64)
        [] k = 3 -> IF i + 2 >= Len(src) THEN 64 ELSE d % 64

base64Encoder(src) ==
  [m \in 1..4 * ((Len(src) + 2) \div 3) |->
     base64[Sixes(src, 3 * ((m - 1) \div 4), (m - 1) % 4) + 1]]

\* The table of StringToHex and StringToDEC: 0 for what is no digit.
ASCValue(c) ==
  CASE c \in 48..57 -> c - 48
    [] c \in 65..70 -> c - 55
    [] c \in 97..102 -> c - 87
    [] OTHER -> 0

\* Two characters make a byte; the zero at the end may be one of them.
StringToHex(src) ==
  [j \in 1..(Len(src) + 1) \div 2 |-> ((ASCValue(At(src, 2*j - 2)) * 16) % 256)
                                      + ASCValue(At(src, 2*j - 1))]

hexDigits == <<48, 49, 50, 51, 52, 53, 54, 55, 56, 57, 65, 66, 67, 68, 69, 70>>

\* A char from 128 on is negative: it is taken apart with masks before it is divided.
HexToString(src) ==
  LET a(c) == c % 16
      b(c) == c - (c % 16)
      high(c) == IF c >= 128 THEN (a(c) + b(c)) \div 16 ELSE c \div 16
      low(c)  == IF c >= 128 THEN a(c) % 16 ELSE c % 16
  IN  [m \in 1..2 * Len(src) |->
         LET c == src[(m + 1) \div 2] IN hexDigits[(IF m % 2 = 1 THEN high(c) ELSE low(c)) + 1]]

\* Up to four digits into two bytes, from the right; what is not written stays.
StringToDEC(dst, src) ==
  LET n == Len(src)
      two(e) == ASCValue(At(src, e)) + IF e > 0 THEN ASCValue(At(src, e - 1)) * 10 ELSE 0
  IN  CASE n > 4 \/ n = 0 -> dst
        [] n \in 1..2 -> <<dst[1], two(n - 1)>>
        [] OTHER -> <<two(n - 3), two(n - 1)>>

\* %02d of numbers below 100.
DECToString(src) ==
  [m \in 1..2 * Len(src) |->
     LET n == src[(m + 1) \div 2] IN 48 + IF m % 2 = 1 THEN n \div 10 ELSE n % 10]

\* The bytes of src from the first that is not 0, if it is among the first len.
raCopy(src, len) ==
  LET i == SelectInSeq(src, LAMBDA c : c # 0) - 1
  IN  IF i >= len THEN <<>> ELSE SubSeq(src, i + 1, len)

\* The sum of each byte or-ed with the next.
Or(a, b) ==
  LET bit(n) == IF (a \div n) % 2 = 1 \/ (b \div n) % 2 = 1 THEN n ELSE 0
  IN  bit(1) + bit(2) + bit(4) + bit(8) + bit(16) + bit(32) + bit(64) + bit(128)
IdCrc(id) ==
  LET crc[n \in 0..Len(id) - 1] == IF n = 0 THEN 0 ELSE crc[n - 1] + Or(id[n], id[n + 1])
  IN  crc[Len(id) - 1]

SubLeft(src, n) == SubSeq(src, 1, IF n > Len(src) THEN Len(src) ELSE n)

\* n characters behind m; it reads on behind the end when there are not so many,
\* and a call that leads there is not made here.
SubMid(src, n, m) ==
  IF m > Len(src) THEN None
  ELSE SubSeq(src, m + 1, m + (IF n > Len(src) THEN Len(src) - m ELSE n))

\* One character of Unicode2UTF8, of 16 bits.
Utf8(u) ==
  CASE u <= 127 -> <<u>>
    [] u \in 128..2047 -> <<((u \div 64) % 32) + 192, (u % 64) + 128>>
    [] OTHER -> <<((u \div 4096) % 16) + 224, ((u \div 64) % 64) + 128, (u % 64) + 128>>

\* Every character gets three bytes of the buffer, those it does not need stay 0.
Unicode2UTF8(unic) ==
  [m \in 1..3 * Len(unic) |-> At(Utf8(unic[(m + 2) \div 3]), (m - 1) % 3)]

-----------------------------------------------------------------------------
(* Numbers, in thousandths                                                 *)

power(x, y) == IF y <= 1 THEN IF y = 0 THEN 1 ELSE x ELSE x^y

\* 0 for a string with any other character than digits and points.  kmp finds the first
\* point; the string after it is read digit by digit up to the next point.
atod(temp) ==
  LET dot == SelectInSeq(temp, LAMBDA c : c = 46) - 1
      whole == IF dot = -1 THEN temp ELSE SubSeq(temp, 1, dot)
      rest == IF dot = -1 THEN <<>> ELSE SubSeq(temp, dot + 2, Len(temp))
      end == SelectInSeq(rest, LAMBDA c : c = 46)
      part == IF end = 0 THEN rest ELSE SubSeq(rest, 1, end - 1)
      digit(s, i) == s[i] - 48
  IN  IF \E i \in DOMAIN temp : temp[i] \notin 48..57 \cup {46} THEN 0
      ELSE FoldLeft(+, 0, [i \in DOMAIN whole |-> digit(whole, i) * power(10, Len(whole) - i) * 1000])
           + FoldLeft(+, 0, [j \in DOMAIN part |-> (digit(part, j) * 1000) \div power(10, j)])

Digits(n) ==
  LET Body(s) == IF s.n = 0 THEN s ELSE [n |-> s.n \div 10, d |-> <<48 + (s.n % 10)>> \o s.d]
  IN  Rounds(Body, [n |-> n \div 10, d |-> <<48 + (n % 10)>>], 9).d

\* The point is written only after a number that has no fraction.
dtoa(n) ==
  LET xs == n % 1000
      Body(s) == IF s.xs = 0 THEN s ELSE [xs |-> (s.xs * 10) % 1000, d |-> Append(s.d, 48 + ((s.xs * 10) \div 1000))]
  IN  Digits(n \div 1000) \o (IF xs = 0 THEN <<46>> ELSE <<>>) \o Rounds(Body, [xs |-> xs, d |-> <<>>], 3).d

-----------------------------------------------------------------------------
\* SubLeft and SubMid take a text apart at any place (public.c:511-540).
CutsFit ==
  Is("cut") =>
    LET src == call.x[1]  n == call.x[2]  m == call.x[3]
    IN  m + n <= Len(src) => SubLeft(src, m) \o SubMid(src, n, m) = SubLeft(src, m + n)

\* The encoded text holds every bit of the source at its place, six in each character,
\* and its length tells how much of its last four is filler (public.c:16-46).
Base64Decodes ==
  Is("bytes") /\ call.x # <<>> =>
    LET enc == base64Encoder(call.x)
        val(c) == CHOOSE n \in 0..64 : base64[n + 1] = c
        bit(b) == (val(enc[b \div 6 + 1]) \div 2^(5 - (b % 6))) % 2
    IN  /\ Len(enc) = 4 * ((Len(call.x) + 2) \div 3)
        /\ \A n \in DOMAIN call.x, k \in 0..7 :
             (call.x[n] \div 2^(7 - k)) % 2 = bit(8 * (n - 1) + k)
        /\ {i \in DOMAIN enc : enc[i] = 61} = (4 * Len(call.x) + 2) \div 3 + 1..Len(enc)

\* Bytes turned to hexadecimal digits and back are the same bytes, those from 128
\* on too (public.c:291-316, 372-395); four decimal digits survive both ways.
HexRoundTrip ==
  /\ Is("words") => StringToHex(HexToString(call.x)) = call.x
  /\ Is("figures") /\ Len(call.x) = 4 => DECToString(StringToDEC(<<0, 0>>, call.x)) = call.x

\* Each character of the source can be read back from its three bytes
\* (public.c:626-651).
Utf8Decodes ==
  Is("unicode") =>
    LET u8 == Unicode2UTF8(call.x)
        char(a, b, c) ==
          CASE a < 128 -> a
            [] a \in 192..223 -> (a - 192) * 64 + b - 128
            [] OTHER -> (a - 224) * 4096 + (b - 128) * 64 + c - 128
    IN  \A i \in DOMAIN call.x : char(u8[3*i - 2], u8[3*i - 1], u8[3*i]) = call.x[i]

\* A number is no 0 for IdCrc unless all its bytes are, and is copied without its
\* leading zeros (public.c:360-370, 569-576).
IdKept ==
  Is("words") /\ Len(call.x) > 1 =>
    /\ IdCrc(call.x) = 0 <=> \A i \in DOMAIN call.x : call.x[i] = 0
    /\ LET copy == raCopy(call.x \o <<1>>, Len(call.x))
           zeros == Len(call.x) - Len(copy)
       IN  /\ IsSuffix(copy, call.x)
           /\ \A i \in 1..zeros : call.x[i] = 0
           /\ copy # <<>> => copy[1] # 0

\* What dtoa writes holds the digits of the number in order, and a number without
\* a fraction comes back from atod (public.c:397-509).
DigitsInOrder ==
  Is("number") =>
    /\ SelectSeq(dtoa(call.x), LAMBDA c : c # 46)
         = Digits(call.x \div 1000) \o SubSeq(Digits(1000 + (call.x % 1000)), 2,
             CASE call.x % 1000 = 0 -> 1 [] call.x % 100 = 0 -> 2
               [] call.x % 10 = 0 /\ call.x % 100 # 0 -> 3 [] OTHER -> 4)
    /\ call.x % 1000 = 0 => atod(dtoa(call.x)) = call.x
    /\ atod(Digits(call.x \div 1000) \o <<46>> \o SubSeq(Digits(1000 + (call.x % 1000)), 2, 4)) = call.x
=============================================================================
