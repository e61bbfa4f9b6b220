------------------------------ MODULE Framing -------------------------------
(***************************************************************************)
(* server/src/logic.c: RobotProcess reads what a robot has sent and cuts it    *)
(* into packets 0xFE, length, kind, ..., 0xFF.  GIS/server/src/logic.c is the   *)
(* same loop.  TCP gives the bytes in any portions: a packet that the end of    *)
(* a read cuts in two is dropped, and its second half is scanned like any       *)
(* other bytes.  This module says what is certain nevertheless.                *)
(***************************************************************************)
EXTENDS Integers, Sequences, SequencesExt

CONSTANTS
  Streams,    \* what a robot may send: sequences of packets
  ReadSize,   \* the bytes of one read (1024 in the code)
  Closes      \* whether the robot may hang up

VARIABLES
  fpc,      \* "idle", "read", "scan", "closed"
  stream,   \* the packets of this robot
  onWay,    \* its bytes not yet delivered
  socket,   \* its bytes delivered and not yet read
  hungUp,   \* the robot has closed
  rBuf, base, i,   \* the last read, where it began in the stream, the scan's index
  tflag,    \* the robot is registered
  handled   \* what was done, with the place in the stream: <<place, what>>

framingVars == <<fpc, stream, onWay, socket, hungUp, rBuf, base, i, tflag, handled>>

MAXRPL == 64
Head_ == \hFE
Tail_ == \hFF

FramingInit ==
  /\ fpc = "idle"
  /\ stream \in Streams /\ onWay = FlattenSeq(stream)
  /\ socket = <<>> /\ hungUp = FALSE
  /\ rBuf = <<>> /\ base = 0 /\ i = 0
  /\ tflag = FALSE /\ handled = <<>>

\* TCP delivers some bytes; epoll has a thread call RobotProcess.
Deliver ==
  /\ fpc # "closed"
  /\ \E k \in 1..Len(onWay) :
       /\ socket' = socket \o SubSeq(onWay, 1, k)
       /\ onWay' = SubSeq(onWay, k + 1, Len(onWay))
  /\ fpc' = IF fpc = "idle" THEN "read" ELSE fpc
  /\ UNCHANGED <<stream, hungUp, rBuf, base, i, tflag, handled>>

HangUp ==
  /\ Closes /\ onWay = <<>> /\ ~hungUp
  /\ hungUp' = TRUE
  /\ fpc' = IF fpc = "idle" THEN "read" ELSE fpc
  /\ UNCHANGED <<stream, onWay, socket, rBuf, base, i, tflag, handled>>

\* read: the bytes there are, nothing yet (EAGAIN), or the end.
Read ==
  /\ fpc = "read"
  /\ LET k == IF Len(socket) < ReadSize THEN Len(socket) ELSE ReadSize IN
     IF k > 0
       THEN /\ base' = base + Len(rBuf)
            /\ rBuf' = SubSeq(socket, 1, k)
            /\ socket' = SubSeq(socket, k + 1, Len(socket))
            /\ i' = 0 /\ fpc' = "scan"
            /\ UNCHANGED tflag
       ELSE /\ fpc' = IF hungUp THEN "closed" ELSE "idle"
            /\ tflag' = (tflag /\ ~hungUp)           \* ResetRClient
            /\ UNCHANGED <<base, rBuf, socket, i>>
  /\ UNCHANGED <<stream, onWay, hungUp, handled>>

-----------------------------------------------------------------------------
(* The scan of one read                                                    *)

byte(k) == rBuf[k + 1]
rLen == Len(rBuf)

\* The server's GisInfo: the identifiers of a report, four bytes each.  GisInfo
\* works on a buffer of MAXRPL bytes with zeros behind the packet.  The ninth byte that
\* HexToString writes, the end of its text, goes behind dst[8] (98, 104) and is left out.
GisInfo(pack) ==
  LET at(k) == IF k < Len(pack) THEN pack[k + 1] ELSE 0
      n     == (pack[2] - 4 + 3) \div 4
  IN  [j \in 1..n |-> [b \in 1..4 |-> at(3 + 4 * (j - 1) + b - 1)]]

\* What a control packet makes the server do; UpdateRClient is part of each.
Handling(pack) ==
  CASE pack[3] = 0 /\ Len(pack) = 6  -> <<"heart">>
    [] pack[3] = 1 /\ Len(pack) = 12 -> IF tflag THEN <<"again">> ELSE <<"register", SubSeq(pack, 4, 11)>>
    [] pack[3] = 2                   -> <<"report", GisInfo(pack)>>
    [] OTHER                         -> <<"nothing">>

\* A head at k is followed by a packet of a good length, all in this read.
WholePacket(k) == k + byte(k + 1) <= rLen /\ byte(k + 1) < MAXRPL /\ byte(k + 1) >= 6

\* Mutant: the scan goes on two bytes behind the packet.
AfterTooFar(k) == k + byte(k + 1) + 1

\* It goes on at the packet's last byte.
After(k) == k + byte(k + 1) - 1

\* One round of the loop: find a head, take the packet there or step over it.
Scan ==
  /\ fpc = "scan"
  /\ LET heads == {k \in i..rLen-1 : byte(k) = Head_}
         h     == IF heads = {} THEN rLen ELSE CHOOSE k \in heads : \A l \in heads : k <= l
     IN  IF h + 5 >= rLen
           THEN fpc' = "read" /\ i' = h /\ UNCHANGED <<tflag, handled>>
           ELSE IF WholePacket(h)
             THEN LET pack == [j \in 1..byte(h + 1) |-> IF h + j <= rLen THEN byte(h + j - 1) ELSE 0]
                      what == IF Len(pack) >= 3 /\ Last(pack) = Tail_ THEN Handling(pack) ELSE <<"rubbish">>
                  IN  /\ handled' = IF what = <<"rubbish">> THEN handled ELSE Append(handled, <<base + h, what>>)
                      /\ tflag' = (tflag \/ what[1] = "register")
                      /\ i' = After(h)
                      /\ UNCHANGED fpc
             ELSE i' = h + 1 /\ UNCHANGED <<fpc, tflag, handled>>
  /\ UNCHANGED <<stream, onWay, socket, hungUp, rBuf, base>>

RobotProcess == Read \/ Scan
FramingNext == Deliver \/ HangUp \/ RobotProcess
FramingSpec == FramingInit /\ [][FramingNext]_framingVars
FramingFair == WF_framingVars(RobotProcess)

-----------------------------------------------------------------------------
(* Properties                                                              *)

FramingTypeOK ==
  /\ fpc \in {"idle", "read", "scan", "closed"}
  /\ i \in 0..ReadSize /\ base \in Nat
  /\ hungUp \in BOOLEAN /\ tflag \in BOOLEAN

\* Where the n-th packet of the stream begins.
StartOf(n) == Len(FlattenSeq(SubSeq(stream, 1, n - 1)))
Scanned == fpc = "read" /\ rBuf # <<>>
InRead(n) == StartOf(n) >= base /\ StartOf(n) + Len(stream[n]) <= base + rLen
Placed == {StartOf(n) : n \in 1..Len(stream)}
\* However the bytes were split: a read that begins where a packet begins has all
\* its whole packets handled, in their order and each once, whatever bytes the packets
\* carry: RobotProcess goes on at the right place after each (logic.c:31-69).
WholeAreHandled ==
  Scanned /\ base \in Placed =>
    /\ \A n \in 1..Len(stream) : InRead(n) => \E h \in Range(handled) : h[1] = StartOf(n)
    /\ \A a, b \in 1..Len(handled) : a < b => handled[a][1] < handled[b][1]

\* What a packet of the stream asks for.
Asks(pack) ==
  CASE pack[3] = 0 /\ pack[2] = 6  -> {<<"heart">>}
    [] pack[3] = 1 /\ pack[2] = 12 -> {<<"register", SubSeq(pack, 4, 11)>>, <<"again">>}
    [] pack[3] = 2                 -> {<<"report", [j \in 1..((pack[2] - 4) \div 4) |-> SubSeq(pack, 4 * j, 4 * j + 3)]>>}
    [] OTHER                       -> {<<"nothing">>}

\* Of packets that carry no head byte nothing else is handled: what is done is what a
\* packet of the stream asks for, its identifiers complete and in order, and never
\* bytes that an earlier read left behind (logic.c:31, robot.c:104-113).
OnlyPackets ==
  (\A n \in 1..Len(stream) : \A k \in 2..Len(stream[n]) : stream[n][k] # Head_) =>
    \A h \in Range(handled) :
      \E n \in 1..Len(stream) : h[1] = StartOf(n) /\ h[2] \in Asks(stream[n])

\* RobotProcess comes to the end of every read: no bytes make the scan stand still.
ScanEnds == fpc = "scan" ~> fpc # "scan"
=============================================================================
