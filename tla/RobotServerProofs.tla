------------------------- MODULE RobotServerProofs -------------------------
(***************************************************************************)
(* Theorems about RobotServer for any number of descriptors, robots, slots   *)
(* and threads.  However the threads interleave, the tables stay well typed  *)
(* and no data is stranded in a socket.  Without the overlaps that KeptApart  *)
(* names, the slots, the entries, the count and the sockets agree.          *)
(***************************************************************************)
EXTENDS RobotServer, HashTableProofs, SequenceTheorems

WorkerPC == {"idle", "read", "reset", "parse", "login", "old", "tflag", "rhiv", "hiv", "count"}
Event == [fd : RFd, kind : {"listen", "rdhup", "in", "other"}]

Entry == [age : 0..MaxAge, tfd : RFd, tflag : RFd, cflag : {0, -1, -2}, hiv : Slot]

\* TypeOK a group of variables at a time, and what the threads hold between
\* their steps: a descriptor when they work on an entry, a serial number and a
\* slot when they register a robot.
SockType ==
  /\ sock \in [Fd -> [open : BOOLEAN, owner : Id \cup {NoId}, inbox : Seq(Packet),
                      fin : BOOLEAN, edge : BOOLEAN, err : BOOLEAN]]
  /\ \A f \in Fd : sock[f].open => sock[f].owner \in Id
NetType == backlog \in Seq(Id) /\ newConn \in BOOLEAN
InfoType ==
  /\ rInfo \in [RFd -> Entry]
  /\ \A f \in Fd : rInfo[f].tfd \in {NoFd, f} /\ rInfo[f].tflag \in {NoFd, f}
TableType ==
  rhiv \in [Slot -> RFd] /\ RidHash \in [Slot -> Id \cup {NoId}] /\ R_CON_NUM \in Int
PoolType ==
  /\ pending \in Seq(Fd) /\ Len(pending) <= Capacity
  /\ running \in [Worker -> RFd]
  /\ dropped \in BOOLEAN
EpType ==
  /\ ep \in [pc : {"wait", "loop", "accept", "stamp", "enlist"}, events : SUBSET Event, fd : RFd]
  /\ ep.pc \in {"stamp", "enlist"} => ep.fd \in Fd
  /\ \A e \in ep.events : e.kind # "listen" => e.fd \in Fd
WkType ==
  /\ wk \in [Worker -> [pc : WorkerPC, packs : Seq(Packet), robot : Id \cup {NoId},
                        index : Slot]]
  /\ \A w \in Worker :
       /\ wk[w].pc # "idle" => running[w] \in Fd
       /\ wk[w].pc = "login" => wk[w].robot \in Id
MgType ==
  /\ mg \in [pc : {"scan", "close", "closeNew", "unlink", "clear", "clearNew"}, fd : RFd]
  /\ mg.pc # "scan" => mg.fd \in Fd

TypeInv == SockType /\ NetType /\ InfoType /\ TableType /\ PoolType /\ EpType /\ WkType /\ MgType

\* epoll_wait is called with no event left over.
LoopInv == ep.pc = "wait" => ep.events = {}

\* Data that only a thread of the pool accounts for has a thread that will
\* read again.
Unread(f) == sock[f].open /\ sock[f].inbox # <<>> /\ ~sock[f].fin
Watched(f) ==
  \/ sock[f].edge
  \/ \E e \in ep.events : e.fd = f /\ e.kind = "in"
  \/ \E i \in 1..Len(pending) : pending[i] = f
  \/ \E w \in Worker : running[w] = f /\ wk[w].pc # "reset"
  \/ dropped

Inv == TypeInv /\ LoopInv /\ \A f \in Fd : Unread(f) => Watched(f)

-----------------------------------------------------------------------------
(* The table of serial numbers                                             *)

\* What a search and an insertion return is a slot.
LEMMA RobotSlot ==
  ASSUME NEW r \in Id
  PROVE  GetHashTablePos(r) \in Slot /\ InsertPos(r) \in Slot
BY SearchInTable DEF GetHashTablePos, InsertPos

-----------------------------------------------------------------------------
(* TypeInv is inductive.                                                   *)

LEMMA TypeInit == Init => TypeInv
<1> SUFFICES ASSUME Init PROVE TypeInv
  OBVIOUS
<1>1. <<>> \in Seq(Id) /\ <<>> \in Seq(Packet) /\ <<>> \in Seq(Fd) /\ Len(<<>>) = 0
  BY EmptySeq
<1>2. InfoType
  BY TimeAssumption, SlotAssumption DEF Init, InfoType, Entry, NoInfo, MaxAge, RFd, NoFd
<1>3. SockType /\ NetType
  BY <1>1 DEF Init, SockType, NetType, Closed
<1>4. TableType
  BY DEF Init, TableType, RFd
<1>7. PoolType
  <2>1. pending \in Seq(Fd) /\ Len(pending) = 0 /\ 0 <= Capacity
    BY <1>1, CapacityAssumption DEF Init
  <2>2. running \in [Worker -> RFd] /\ dropped \in BOOLEAN
    BY DEF Init, NoJob, RFd
  <2> QED
    BY <2>1, <2>2 DEF PoolType
<1>5. EpType /\ MgType
  BY DEF Init, EpType, MgType, NoFd, RFd
<1>6. WkType
  BY <1>1, SlotAssumption DEF Init, WkType, WorkerPC
<1> QED
  BY <1>2, <1>3, <1>4, <1>5, <1>6, <1>7 DEF TypeInv

\* A group that a step leaves alone stays well typed.
LEMMA Frames ==
  /\ SockType /\ UNCHANGED sock => SockType'
  /\ NetType /\ UNCHANGED <<backlog, newConn>> => NetType'
  /\ InfoType /\ UNCHANGED rInfo => InfoType'
  /\ TableType /\ UNCHANGED <<rhiv, RidHash, R_CON_NUM>> => TableType'
  /\ PoolType /\ UNCHANGED <<pending, running, dropped>> => PoolType'
  /\ EpType /\ UNCHANGED ep => EpType'
  /\ WkType /\ UNCHANGED <<wk, running>> => WkType'
  /\ MgType /\ UNCHANGED mg => MgType'
BY DEF SockType, NetType, InfoType, TableType, PoolType, EpType, WkType, MgType

\* Stamping an entry and shortening its time keep the entries well typed.
LEMMA StampsTyped ==
  ASSUME InfoType, NEW f \in Fd
  PROVE  /\ rInfo' = Updated(f) => InfoType'
         /\ rInfo' = Reset(f) => InfoType'
<1>1. ASSUME rInfo' = Updated(f) PROVE InfoType'
  BY <1>1, TimeAssumption DEF InfoType, Entry, Updated, MaxAge, RFd
<1>2. ASSUME rInfo' = Reset(f) PROVE InfoType'
  <2> DEFINE a == IF rInfo[f].tflag # NoFd THEN HEART_TIME ELSE DEAD_TIME
  <2>1. a \in 0..MaxAge
    BY TimeAssumption DEF MaxAge
  <2>2. rInfo' = [rInfo EXCEPT ![f] = [rInfo[f] EXCEPT !.age = a, !.cflag = -1]]
    BY <1>2 DEF Reset, InfoType
  <2>3. f \in RFd /\ rInfo[f] \in Entry
    BY DEF InfoType, RFd
  <2> HIDE DEF a
  <2>4. [rInfo[f] EXCEPT !.age = a, !.cflag = -1] \in Entry
    BY <2>1, <2>3 DEF Entry
  <2> QED
    BY <2>2, <2>3, <2>4 DEF InfoType, Entry
<1> QED
  BY <1>1, <1>2

\* A thread that is not idle works on a descriptor and holds a slot.
LEMMA HoldsFd ==
  ASSUME WkType, NEW w \in Worker, wk[w].pc # "idle"
  PROVE  running[w] \in Fd /\ running[w] \in RFd /\ wk[w].index \in Slot
BY DEF WkType, RFd

\* One field of an entry may be stored, tfd and tflag only as the entry's index.
LEMMA FieldStored ==
  ASSUME InfoType, NEW f \in RFd
  PROVE  /\ \A a \in 0..MaxAge : rInfo' = [rInfo EXCEPT ![f].age = a] => InfoType'
         /\ rInfo' = [rInfo EXCEPT ![f].cflag = -2] => InfoType'
         /\ \A s \in Slot : rInfo' = [rInfo EXCEPT ![f].hiv = s] => InfoType'
         /\ rInfo' = [rInfo EXCEPT ![f].tfd = f] => InfoType'
         /\ rInfo' = [rInfo EXCEPT ![f].tflag = f] => InfoType'
<1>1. ASSUME NEW a \in 0..MaxAge, rInfo' = [rInfo EXCEPT ![f].age = a] PROVE InfoType'
  BY <1>1 DEF InfoType, Entry
<1>2. ASSUME rInfo' = [rInfo EXCEPT ![f].cflag = -2] PROVE InfoType'
  BY <1>2 DEF InfoType, Entry
<1>3. ASSUME NEW s \in Slot, rInfo' = [rInfo EXCEPT ![f].hiv = s] PROVE InfoType'
  BY <1>3 DEF InfoType, Entry
<1>4. ASSUME rInfo' = [rInfo EXCEPT ![f].tfd = f] PROVE InfoType'
  BY <1>4 DEF InfoType, Entry
<1>5. ASSUME rInfo' = [rInfo EXCEPT ![f].tflag = f] PROVE InfoType'
  BY <1>5 DEF InfoType, Entry
<1> QED
  BY <1>1, <1>2, <1>3, <1>4, <1>5

\* What a read takes and what it leaves are packets.
LEMMA PacketsRead ==
  ASSUME NEW s \in Seq(Packet), NEW n \in Nat, n <= Len(s)
  PROVE  SubSeq(s, 1, n) \in Seq(Packet) /\ SubSeq(s, n + 1, Len(s)) \in Seq(Packet)
<1>1. Len(s) \in Nat /\ \A i \in 1..Len(s) : s[i] \in Packet
  BY LenProperties, ElementOfSeq
<1>2. SubSeq(s, 1, n) \in Seq(Packet)
  BY <1>1, SubSeqProperties
<1>3. SubSeq(s, n + 1, Len(s)) \in Seq(Packet)
  BY <1>1, SubSeqProperties
<1> QED
  BY <1>2, <1>3

\* A read takes some of the packets of an open socket.
LEMMA SocketRead ==
  ASSUME SockType, NEW f \in Fd
  PROVE  LET n == IF Len(sock[f].inbox) < ReadSize THEN Len(sock[f].inbox) ELSE ReadSize
         IN  n \in Nat /\ n <= Len(sock[f].inbox)
<1>1. Len(sock[f].inbox) \in Nat
  BY LenProperties DEF SockType
<1> QED
  BY <1>1, CapacityAssumption

LEMMA TypeNext == TypeInv /\ [Next]_vars => TypeInv'
<1> SUFFICES ASSUME TypeInv, [Next]_vars PROVE TypeInv'
  OBVIOUS
<1> USE DEF TypeInv, serverVars, poolVars, envVars
<1>1. ASSUME NEW r \in Id, Connect(r) PROVE TypeInv'
  <2>1. NetType'
    BY <1>1, AppendProperties DEF Connect, NetType
  <2> QED
    BY <1>1, <2>1, Frames DEF Connect
<1>2. ASSUME NEW f \in Fd, NEW m \in Packet, Send(f, m) PROVE TypeInv'
  <2>1. SockType'
    <3>1. Append(sock[f].inbox, m) \in Seq(Packet)
      BY <1>2, AppendProperties DEF SockType
    <3>2. sock' = [sock EXCEPT ![f] = [sock[f] EXCEPT !.inbox = Append(sock[f].inbox, m), !.edge = TRUE]]
      BY <1>2 DEF Send, SockType
    <3> QED
      BY <3>1, <3>2 DEF SockType
  <2> QED
    BY <1>2, <2>1, Frames DEF Send
<1>3. ASSUME NEW f \in Fd, PeerCloses(f) PROVE TypeInv'
  <2>1. SockType'
    BY <1>3 DEF PeerCloses, SockType
  <2> QED
    BY <1>3, <2>1, Frames DEF PeerCloses
<1>4. ASSUME NEW f \in Fd, SocketError(f) PROVE TypeInv'
  <2>1. SockType'
    BY <1>4 DEF SocketError, SockType
  <2> QED
    BY <1>4, <2>1, Frames DEF SocketError
<1>5. CASE Tick
  <2>1. InfoType'
    <3>1. ASSUME NEW g \in RFd
          PROVE  (IF rInfo[g].age < MaxAge THEN rInfo[g].age + 1 ELSE rInfo[g].age) \in 0..MaxAge
      BY TimeAssumption DEF InfoType, Entry, MaxAge
    <3>2. ASSUME NEW g \in RFd PROVE rInfo[g] \in Entry
      BY DEF InfoType
    <3>3. ASSUME NEW g \in RFd
          PROVE  rInfo'[g] \in Entry /\ rInfo'[g].tfd = rInfo[g].tfd /\ rInfo'[g].tflag = rInfo[g].tflag
      <4>1. rInfo'[g] = [rInfo[g] EXCEPT !.age = IF @ < MaxAge THEN @ + 1 ELSE @]
        BY <1>5 DEF Tick
      <4> QED
        BY <4>1, <3>1, <3>2 DEF Entry
    <3>4. rInfo' = [g \in RFd |-> rInfo'[g]]
      BY <1>5 DEF Tick
    <3>5. rInfo' \in [RFd -> Entry]
      BY <3>3, <3>4
    <3> QED
      BY <3>3, <3>5 DEF InfoType, RFd
  <2> QED
    BY <1>5, <2>1, Frames DEF Tick
<1>6. CASE EpollWait
  <2>1. SockType'
    <3>1. ASSUME NEW g \in Fd
          PROVE  /\ sock'[g] = [sock[g] EXCEPT !.edge = FALSE]
                 /\ sock[g] \in [open : BOOLEAN, owner : Id \cup {NoId}, inbox : Seq(Packet),
                               fin : BOOLEAN, edge : BOOLEAN, err : BOOLEAN]
      BY <1>6 DEF EpollWait, SockType
    <3>2. sock' = [g \in Fd |-> sock'[g]]
      BY <1>6 DEF EpollWait
    <3> QED
      BY ZenonT(40), <3>1, <3>2 DEF SockType
  <2>2. NetType'
    BY <1>6 DEF EpollWait, NetType
  <2>3. EpType'
    <3>1. ASSUME NEW g \in Fd PROVE [fd |-> g, kind |-> EventKind(g)] \in Event
      BY DEF Event, EventKind, RFd
    <3>2. [fd |-> NoFd, kind |-> "listen"] \in Event
      BY DEF Event, RFd
    <3> DEFINE events == {[fd |-> f, kind |-> EventKind(f)] : f \in {g \in Fd : Reported(g)}}
                          \cup IF newConn THEN {[fd |-> NoFd, kind |-> "listen"]} ELSE {}
    <3>3. events \in SUBSET Event /\ \A e \in events : e.kind # "listen" => e.fd \in Fd
      BY <3>1, <3>2
    <3>4. ep' = [ep EXCEPT !.events = events, !.pc = IF events = {} THEN "wait" ELSE "loop"]
      BY <1>6 DEF EpollWait
    <3> QED
      BY <3>3, <3>4 DEF EpType
  <2> QED
    BY <1>6, <2>1, <2>2, <2>3, Frames DEF EpollWait
<1>7. ASSUME NEW e \in ep.events, HandleListen(e) PROVE TypeInv'
  <2>1. EpType'
    BY <1>7 DEF HandleListen, EpType, EpAfter
  <2> QED
    BY <1>7, <2>1, Frames DEF HandleListen
<1>8. ASSUME NEW e \in ep.events, HandleRdhup(e) PROVE TypeInv'
  <2>1. InfoType'
    BY <1>8, StampsTyped DEF HandleRdhup, InfoType, EpType
  <2>2. EpType'
    BY <1>8 DEF HandleRdhup, EpType, EpAfter
  <2> QED
    BY <1>8, <2>1, <2>2, Frames DEF HandleRdhup
<1>9. ASSUME NEW e \in ep.events, HandleIn(e) PROVE TypeInv'
  <2>1. PoolType'
    <3>1. CASE Pool!Submit(e.fd) /\ UNCHANGED dropped
      <4>1. e.fd \in Fd
        BY <1>9 DEF HandleIn, EpType
      <4>2. Append(pending, e.fd) \in Seq(Fd) /\ Len(Append(pending, e.fd)) = Len(pending) + 1
        BY <4>1, AppendProperties DEF PoolType
      <4>3. Len(pending) \in Nat
        BY LenProperties DEF PoolType
      <4> QED
        BY <3>1, <4>2, <4>3, CapacityAssumption DEF PoolType, Pool!Submit
    <3>2. CASE dropped' = TRUE /\ UNCHANGED poolVars
      BY <3>2 DEF PoolType
    <3> QED
      BY <1>9, <3>1, <3>2 DEF HandleIn
  <2>2. WkType'
    BY <1>9 DEF HandleIn, WkType, Pool!Submit
  <2>3. EpType'
    BY <1>9 DEF HandleIn, EpType, EpAfter
  <2> QED
    BY <1>9, <2>1, <2>2, <2>3, Frames DEF HandleIn, Pool!Submit
<1>10. ASSUME NEW e \in ep.events, HandleOther(e) PROVE TypeInv'
  <2>1. SockType'
    BY <1>10, EmptySeq DEF HandleOther, SockType, Closed
  <2>2. EpType'
    BY <1>10 DEF HandleOther, EpType, EpAfter
  <2> QED
    BY <1>10, <2>1, <2>2, Frames DEF HandleOther
<1>11. CASE Accept
  <2>1. SockType'
    <3>1. PICK f \in Fd : sock' = [sock EXCEPT ![f] = [Closed EXCEPT !.open = TRUE, !.owner = Head(backlog)]]
      BY <1>11 DEF Accept, FreeFd
    <3>2. Head(backlog) \in Id /\ <<>> \in Seq(Packet)
      BY <1>11, HeadTailProperties, EmptySeq DEF Accept, NetType
    <3> QED
      BY <3>1, <3>2 DEF SockType, Closed
  <2>2. NetType'
    BY <1>11, HeadTailProperties DEF Accept, NetType
  <2>3. EpType'
    BY <1>11 DEF Accept, EpType, FreeFd, RFd
  <2> QED
    BY <1>11, <2>1, <2>2, <2>3, Frames DEF Accept
<1>12. CASE AcceptEnds
  <2>1. EpType'
    BY <1>12 DEF AcceptEnds, EpType, RFd, NoFd
  <2> QED
    BY <1>12, <2>1, Frames DEF AcceptEnds
<1>13. CASE Stamp
  <2>1. InfoType'
    BY <1>13, StampsTyped DEF Stamp, InfoType, EpType
  <2>2. EpType'
    BY <1>13 DEF Stamp, EpType
  <2> QED
    BY <1>13, <2>1, <2>2, Frames DEF Stamp
<1>14. CASE Enlist
  <2>1. InfoType'
    BY <1>14, FieldStored DEF Enlist, EpType
  <2>2. EpType'
    BY <1>14 DEF Enlist, EpType
  <2> QED
    BY <1>14, <2>1, <2>2, Frames DEF Enlist
<1>15. ASSUME NEW w \in Worker, StartJob(w) PROVE TypeInv'
  <2>1. PoolType'
    <3>1. pending # <<>> /\ Len(pending) \in Nat
      BY <1>15, LenProperties DEF StartJob, Pool!Start, PoolType
    <3>2. Head(pending) \in Fd /\ Tail(pending) \in Seq(Fd) /\ Len(Tail(pending)) = Len(pending) - 1
      BY <3>1, HeadTailProperties DEF PoolType
    <3> QED
      BY <1>15, <3>1, <3>2, CapacityAssumption DEF StartJob, Pool!Start, PoolType, RFd
  <2>2. WkType'
    BY <1>15, HeadTailProperties DEF StartJob, WkType, Pool!Start, PoolType, WorkerPC
  <2> QED
    BY <1>15, <2>1, <2>2, Frames DEF StartJob, Pool!Start
<1>16. ASSUME NEW w \in Worker, ReadData(w) PROVE TypeInv'
  <2>1. SockType'
    <3>1. PICK n \in Nat : /\ n <= Len(sock[running[w]].inbox)
                          /\ sock' = [sock EXCEPT ![running[w]].inbox = SubSeq(@, n + 1, Len(@))]
      BY <1>16, HoldsFd, SocketRead DEF ReadData
    <3>2. SubSeq(sock[running[w]].inbox, n + 1, Len(sock[running[w]].inbox)) \in Seq(Packet)
      BY <1>16, <3>1, HoldsFd, PacketsRead DEF ReadData, SockType
    <3> QED
      BY ZenonT(40), <3>1, <3>2 DEF SockType
  <2>2. WkType'
    <3>1. PICK n \in Nat :
            /\ n <= Len(sock[running[w]].inbox)
            /\ wk' = [wk EXCEPT ![w].pc = "parse", ![w].packs = SubSeq(sock[running[w]].inbox, 1, n)]
      BY <1>16, HoldsFd, SocketRead DEF ReadData
    <3>2. SubSeq(sock[running[w]].inbox, 1, n) \in Seq(Packet)
      BY <1>16, <3>1, HoldsFd, PacketsRead DEF ReadData, SockType
    <3>3. UNCHANGED running /\ wk[w].pc = "read"
      BY <1>16 DEF ReadData
    <3> QED
      BY <3>1, <3>2, <3>3 DEF WkType, WorkerPC
  <2> QED
    BY <1>16, <2>1, <2>2, Frames DEF ReadData
<1>17. ASSUME NEW w \in Worker, ReadEof(w) PROVE TypeInv'
  <2>1. WkType'
    BY <1>17 DEF ReadEof, WkType, WorkerPC
  <2> QED
    BY <1>17, <2>1, Frames DEF ReadEof
<1>18. ASSUME NEW w \in Worker, ReadNothing(w) PROVE TypeInv'
  <2>1. PoolType'
    BY <1>18 DEF ReadNothing, PoolType, JobEnds, NoJob, RFd
  <2>2. WkType'
    BY <1>18, EmptySeq, SlotAssumption DEF ReadNothing, WkType, PoolType, JobEnds, WorkerPC
  <2> QED
    BY <1>18, <2>1, <2>2, Frames DEF ReadNothing, JobEnds
<1>19. ASSUME NEW w \in Worker, ResetAfterEof(w) PROVE TypeInv'
  <2>1. InfoType'
    BY <1>19, StampsTyped DEF ResetAfterEof, InfoType, WkType
  <2>2. PoolType'
    BY <1>19 DEF ResetAfterEof, PoolType, JobEnds, NoJob, RFd
  <2>3. WkType'
    BY <1>19, EmptySeq, SlotAssumption DEF ResetAfterEof, WkType, PoolType, JobEnds, WorkerPC
  <2> QED
    BY <1>19, <2>1, <2>2, <2>3, Frames DEF ResetAfterEof, JobEnds
<1>20. ASSUME NEW w \in Worker, PacketsEnd(w) PROVE TypeInv'
  <2>1. WkType'
    BY <1>20 DEF PacketsEnd, WkType, WorkerPC
  <2> QED
    BY <1>20, <2>1, Frames DEF PacketsEnd
<1>21. ASSUME NEW w \in Worker, RefreshPacket(w) PROVE TypeInv'
  <2>1. InfoType'
    BY <1>21, StampsTyped DEF RefreshPacket, InfoType, WkType
  <2>2. WkType'
    BY ZenonT(40), <1>21, HeadTailProperties DEF RefreshPacket, WkType, NextPacket, WorkerPC
  <2> QED
    BY <1>21, <2>1, <2>2, Frames DEF RefreshPacket
<1>22. ASSUME NEW w \in Worker, RegisterPacket(w) PROVE TypeInv'
  <2>1. WkType'
    BY SMTT(30), <1>22, RobotSlot, HeadTailProperties DEF RegisterPacket, WkType, NextPacket, WorkerPC, Packet
  <2> QED
    BY <1>22, <2>1, Frames DEF RegisterPacket
<1>23. ASSUME NEW w \in Worker, NewRobot(w) PROVE TypeInv'
  <2>1. TableType'
    BY <1>23, RobotSlot DEF NewRobot, TableType, WkType
  <2>2. WkType'
    BY <1>23, RobotSlot DEF NewRobot, WkType, WorkerPC
  <2> QED
    BY <1>23, <2>1, <2>2, Frames DEF NewRobot
<1>24. ASSUME NEW w \in Worker, FirstLogin(w) PROVE TypeInv'
  <2>1. WkType'
    BY <1>24 DEF FirstLogin, WkType, WorkerPC
  <2> QED
    BY <1>24, <2>1, Frames DEF FirstLogin
<1>25. ASSUME NEW w \in Worker, LoginAgain(w) PROVE TypeInv'
  <2>1. InfoType'
    <3>1. rhiv[wk[w].index] \in RFd
      BY DEF TableType, WkType
    <3> QED
      BY <1>25, <3>1, FieldStored DEF LoginAgain
  <2>2. WkType'
    BY <1>25 DEF LoginAgain, WkType, WorkerPC
  <2> QED
    BY <1>25, <2>1, <2>2, Frames DEF LoginAgain
<1>26. ASSUME NEW w \in Worker, OldLogin(w) PROVE TypeInv'
  <2>1. InfoType'
    <3>1. rhiv[wk[w].index] \in RFd
      BY DEF TableType, WkType
    <3>2. HEART_TIME \in 0..MaxAge
      BY TimeAssumption DEF MaxAge
    <3> QED
      BY <1>26, <3>1, <3>2, FieldStored DEF OldLogin
  <2>2. WkType'
    BY <1>26 DEF OldLogin, WkType, WorkerPC
  <2> QED
    BY <1>26, <2>1, <2>2, Frames DEF OldLogin
<1>27. ASSUME NEW w \in Worker, SetTflag(w) PROVE TypeInv'
  <2>1. InfoType'
    BY <1>27, HoldsFd, FieldStored DEF SetTflag
  <2>2. WkType'
    BY <1>27 DEF SetTflag, WkType, WorkerPC
  <2> QED
    BY <1>27, <2>1, <2>2, Frames DEF SetTflag
<1>28. ASSUME NEW w \in Worker, SetRhiv(w) PROVE TypeInv'
  <2>1. TableType'
    BY <1>28 DEF SetRhiv, TableType, WkType, RFd
  <2>2. WkType'
    BY <1>28 DEF SetRhiv, WkType, WorkerPC
  <2> QED
    BY <1>28, <2>1, <2>2, Frames DEF SetRhiv
<1>29. ASSUME NEW w \in Worker, SetHiv(w) PROVE TypeInv'
  <2>1. InfoType'
    BY <1>29, HoldsFd, FieldStored DEF SetHiv
  <2>2. WkType'
    BY <1>29 DEF SetHiv, WkType, WorkerPC
  <2> QED
    BY <1>29, <2>1, <2>2, Frames DEF SetHiv
<1>30. ASSUME NEW w \in Worker, CountRobot(w) PROVE TypeInv'
  <2>1. InfoType'
    BY <1>30, StampsTyped DEF CountRobot, InfoType, WkType
  <2>2. TableType'
    BY <1>30 DEF CountRobot, TableType
  <2>3. WkType'
    BY ZenonT(40), <1>30, SlotAssumption DEF CountRobot, WkType, WorkerPC
  <2> QED
    BY <1>30, <2>1, <2>2, <2>3, Frames DEF CountRobot
<1>31. ASSUME NEW f \in Fd, VisitRegistered(f) PROVE TypeInv'
  <2>1. MgType'
    BY <1>31 DEF VisitRegistered, MgType, RFd
  <2> QED
    BY <1>31, <2>1, Frames DEF VisitRegistered
<1>32. ASSUME NEW f \in Fd, VisitNew(f) PROVE TypeInv'
  <2>1. MgType'
    BY <1>32 DEF VisitNew, MgType, RFd
  <2> QED
    BY <1>32, <2>1, Frames DEF VisitNew
<1>33. CASE ManagerCloses
  <2>1. SockType'
    BY <1>33, EmptySeq DEF ManagerCloses, SockType, Closed
  <2>2. MgType'
    BY <1>33 DEF ManagerCloses, MgType
  <2> QED
    BY <1>33, <2>1, <2>2, Frames DEF ManagerCloses
<1>34. CASE Unlink
  <2>1. TableType'
    BY <1>34 DEF Unlink, TableType, InfoType, Entry, MgType, RFd, NoFd
  <2>2. MgType'
    BY <1>34 DEF Unlink, MgType
  <2> QED
    BY <1>34, <2>1, <2>2, Frames DEF Unlink
<1>35. CASE Clear
  <2>1. InfoType'
    BY <1>35, SlotAssumption DEF Clear, InfoType, MgType, Entry, NoInfo, RFd, NoFd
  <2>2. TableType'
    BY <1>35 DEF Clear, TableType
  <2>3. MgType'
    BY <1>35 DEF Clear, MgType, RFd, NoFd
  <2> QED
    BY <1>35, <2>1, <2>2, <2>3, Frames DEF Clear
<1>36. CASE ClearNew
  <2>1. InfoType'
    BY <1>36 DEF ClearNew, InfoType, MgType, Entry, RFd, NoFd
  <2>2. MgType'
    BY <1>36 DEF ClearNew, MgType, RFd, NoFd
  <2> QED
    BY <1>36, <2>1, <2>2, Frames DEF ClearNew
<1>37. CASE HttpStep
  BY <1>37, Frames DEF HttpStep, Request, WriteCommand
<1>38. CASE UNCHANGED vars
  BY <1>38, Frames DEF vars
<1> QED
  BY <1>1, <1>2, <1>3, <1>4, <1>5, <1>6, <1>7, <1>8, <1>9, <1>10, <1>11, <1>12, <1>13,
     <1>14, <1>15, <1>16, <1>17, <1>18, <1>19, <1>20, <1>21, <1>22, <1>23, <1>24, <1>25,
     <1>26, <1>27, <1>28, <1>29, <1>30, <1>31, <1>32, <1>33, <1>34, <1>35, <1>36, <1>37,
     <1>38
     DEF Next, Environment, EpollStep, WorkerStep, ManagerStep

-----------------------------------------------------------------------------
(* The reader: LoopInv and the watch on unread data, on top of TypeInv.                               *)

\* A step that leaves the socket's data, the events, the jobs and the threads
\* that will read again as they are leaves the data watched.
LEMMA WatchedFrame ==
  ASSUME NEW f \in Fd, Unread(f) => Watched(f), Unread(f)', Unread(f)' => Unread(f),
         sock[f].edge => sock'[f].edge,
         \A e \in ep.events : e.kind = "in" => e \in ep'.events,
         UNCHANGED <<pending, running, dropped>>,
         \A w \in Worker : wk'[w].pc = "reset" => wk[w].pc = "reset" \/ running[w] # f
  PROVE  Watched(f)'
BY DEF Watched

LEMMA LoopNext == TypeInv /\ LoopInv /\ [Next]_vars => LoopInv'
<1> SUFFICES ASSUME TypeInv, LoopInv, [Next]_vars PROVE LoopInv'
  OBVIOUS
<1> USE DEF LoopInv
<1>1. CASE EpollWait
  BY <1>1 DEF EpollWait, TypeInv, EpType
<1>2. ASSUME NEW e \in ep.events, HandleListen(e) \/ HandleRdhup(e) \/ HandleIn(e) \/ HandleOther(e)
      PROVE  LoopInv'
  BY <1>2 DEF HandleListen, HandleRdhup, HandleIn, HandleOther, EpAfter, TypeInv, EpType
<1>3. CASE Accept \/ AcceptEnds \/ Stamp \/ Enlist
  BY <1>3 DEF Accept, AcceptEnds, Stamp, Enlist, TypeInv, EpType
<1>4. CASE UNCHANGED ep
  BY <1>4
<1>5. EpollStep \/ UNCHANGED ep
  BY DEF Next, Environment, Connect, Send, PeerCloses, SocketError, Tick, WorkerStep, StartJob,
     ReadData, ReadEof, ReadNothing, ResetAfterEof, PacketsEnd, RefreshPacket, RegisterPacket,
     NewRobot, FirstLogin, LoginAgain, OldLogin, SetTflag, SetRhiv, SetHiv, CountRobot,
     ManagerStep, VisitRegistered, VisitNew, ManagerCloses, Unlink, Clear, ClearNew,
     HttpStep, Request, WriteCommand, vars
<1> QED
  BY <1>1, <1>2, <1>3, <1>4, <1>5 DEF EpollStep

LEMMA WatchedNext ==
  ASSUME TypeInv, LoopInv, [Next]_vars, NEW f \in Fd, Unread(f) => Watched(f), Unread(f)'
  PROVE  Watched(f)'
<1> USE DEF TypeInv, serverVars, poolVars, envVars
<1>1. ASSUME NEW r \in Id, Connect(r) PROVE Watched(f)'
  BY <1>1, WatchedFrame DEF Connect, Unread
<1>2. ASSUME NEW g \in Fd, NEW m \in Packet, Send(g, m) PROVE Watched(f)'
  <2>1. CASE f = g
    BY <1>2, <2>1 DEF Send, SockType, Watched
  <2>2. CASE f # g
    <3>1. sock'[f] = sock[f]
      BY <1>2, <2>2 DEF Send, SockType
    <3> QED
      BY <1>2, <3>1, WatchedFrame DEF Send, Unread
  <2> QED
    BY <2>1, <2>2
<1>3. ASSUME NEW g \in Fd, PeerCloses(g) PROVE Watched(f)'
  <2>1. f # g /\ sock'[f] = sock[f]
    BY <1>3 DEF PeerCloses, SockType, Unread
  <2> QED
    BY <1>3, <2>1, WatchedFrame DEF PeerCloses, Unread
<1>4. ASSUME NEW g \in Fd, SocketError(g) PROVE Watched(f)'
  <2>1. CASE f = g
    BY <1>4, <2>1 DEF SocketError, SockType, Watched
  <2>2. CASE f # g
    <3>1. sock'[f] = sock[f]
      BY <1>4, <2>2 DEF SocketError, SockType
    <3> QED
      BY <1>4, <3>1, WatchedFrame DEF SocketError, Unread
  <2> QED
    BY <2>1, <2>2
<1>5. CASE Tick
  BY <1>5, WatchedFrame DEF Tick, Unread
<1>6. CASE EpollWait
  <2>1. /\ ep.events = {}
        /\ sock'[f] = [sock[f] EXCEPT !.edge = FALSE]
        /\ UNCHANGED <<pending, running, wk, dropped>>
    BY <1>6 DEF EpollWait, LoopInv
  <2>2. Unread(f)
    BY <2>1 DEF Unread, SockType
  <2>3. CASE sock[f].edge
    <3>1. Reported(f) /\ EventKind(f) = "in"
      BY <2>2, <2>3 DEF Reported, EventKind, Unread
    <3>2. [fd |-> f, kind |-> "in"] \in ep'.events
      BY <1>6, <3>1 DEF EpollWait, EpType
    <3> QED
      BY <3>2 DEF Watched
  <2>4. CASE ~sock[f].edge
    BY <2>1, <2>2, <2>4 DEF Watched
  <2> QED
    BY <2>3, <2>4
<1>7. ASSUME NEW e \in ep.events, HandleListen(e) \/ HandleRdhup(e) PROVE Watched(f)'
  <2>1. \A d \in ep.events : d.kind = "in" => d \in ep'.events
    BY <1>7 DEF HandleListen, HandleRdhup, EpAfter, EpType
  <2> QED
    BY <1>7, <2>1, WatchedFrame DEF HandleListen, HandleRdhup, Unread
<1>8. ASSUME NEW e \in ep.events, HandleIn(e) PROVE Watched(f)'
  <2>1. /\ UNCHANGED <<sock, running, wk>>
        /\ ep'.events = ep.events \ {e}
        /\ Unread(f)
    BY <1>8 DEF HandleIn, EpAfter, EpType, Pool!Submit, Unread
  <2>2. CASE Pool!Submit(e.fd) /\ UNCHANGED dropped
    <3>1. pending' = Append(pending, e.fd) /\ e.fd \in Fd /\ pending \in Seq(Fd)
      BY <1>8, <2>2 DEF Pool!Submit, HandleIn, EpType, PoolType
    <3>2. /\ Len(pending) \in Nat
          /\ Len(pending') = Len(pending) + 1
          /\ \A i \in 1..Len(pending) : pending'[i] = pending[i]
          /\ pending'[Len(pending) + 1] = e.fd
      BY <3>1, AppendProperties, LenProperties
    <3>3. CASE e.fd = f
      BY <3>2, <3>3 DEF Watched
    <3>4. CASE e.fd # f
      BY <2>1, <2>2, <3>2, <3>4 DEF Watched
    <3> QED
      BY <3>3, <3>4
  <2>3. CASE dropped' = TRUE
    BY <2>3 DEF Watched
  <2> QED
    BY <1>8, <2>2, <2>3 DEF HandleIn
<1>9. ASSUME NEW e \in ep.events, HandleOther(e) PROVE Watched(f)'
  <2>1. \A d \in ep.events : d.kind = "in" => d \in ep'.events
    BY <1>9 DEF HandleOther, EpAfter, EpType
  <2>2. sock'[f] = sock[f]
    BY <1>9 DEF HandleOther, EpType, SockType, Closed, Unread
  <2> QED
    BY <1>9, <2>1, <2>2, WatchedFrame DEF HandleOther, Unread
<1>10. CASE Accept
  <2>1. ep'.events = ep.events
    BY <1>10 DEF Accept, EpType
  <2>2. sock'[f] = sock[f]
    BY <1>10 DEF Accept, FreeFd, SockType, Closed, Unread
  <2> QED
    BY <1>10, <2>1, <2>2, WatchedFrame DEF Accept, Unread
<1>11. CASE AcceptEnds \/ Stamp \/ Enlist
  <2>1. ep'.events = ep.events
    BY <1>11 DEF AcceptEnds, Stamp, Enlist, EpType
  <2> QED
    BY <1>11, <2>1, WatchedFrame DEF AcceptEnds, Stamp, Enlist, Unread
<1>12. ASSUME NEW w \in Worker, StartJob(w) PROVE Watched(f)'
  <2>1. /\ UNCHANGED <<sock, ep, dropped>>
        /\ pending \in Seq(Fd) /\ pending # <<>>
        /\ running[w] = NoJob
        /\ running' = [running EXCEPT ![w] = Head(pending)]
        /\ pending' = Tail(pending)
        /\ wk' = [wk EXCEPT ![w].pc = "read"]
    BY <1>12 DEF StartJob, Pool!Start, PoolType
  <2>2. Unread(f) /\ Watched(f)
    BY <2>1 DEF Unread
  <2>3. /\ Len(pending) \in Nat \ {0}
        /\ Head(pending) = pending[1]
        /\ Len(Tail(pending)) = Len(pending) - 1
        /\ \A i \in 1..Len(pending)-1 : Tail(pending)[i] = pending[i + 1]
    BY <2>1, HeadTailProperties, LenProperties, EmptySeq
  <2>4. running'[w] = Head(pending) /\ wk'[w].pc # "reset"
    BY <2>1 DEF PoolType, WkType
  <2>5. \A v \in Worker \ {w} : running'[v] = running[v] /\ wk'[v] = wk[v]
    BY <2>1 DEF PoolType, WkType
  <2>6. running[w] # f
    BY <2>1, FdAssumption DEF NoJob, NoFd
  <2>7. ASSUME NEW i \in 1..Len(pending), pending[i] = f PROVE Watched(f)'
    <3>1. CASE i = 1
      BY <2>3, <2>4, <2>7, <3>1 DEF Watched
    <3>2. CASE i # 1
      <4>1. i - 1 \in 1..Len(pending') /\ pending'[i - 1] = f
        BY <2>1, <2>3, <2>7, <3>2
      <4> QED
        BY <4>1 DEF Watched
    <3> QED
      BY <3>1, <3>2
  <2>8. ASSUME NEW v \in Worker, running[v] = f, wk[v].pc # "reset" PROVE Watched(f)'
    BY <2>5, <2>6, <2>8 DEF Watched
  <2> QED
    BY <2>1, <2>2, <2>7, <2>8 DEF Watched
<1>13. ASSUME NEW w \in Worker, ReadData(w) PROVE Watched(f)'
  <2>1. CASE running[w] = f
    <3>1. running'[w] = f /\ wk'[w].pc # "reset"
      BY <1>13, <2>1 DEF ReadData, WkType
    <3> QED
      BY <3>1 DEF Watched
  <2>2. CASE running[w] # f
    <3>1. sock'[f] = sock[f] /\ \A v \in Worker : wk'[v].pc = "reset" => wk[v].pc = "reset"
      BY <1>13, <2>2 DEF ReadData, SockType, WkType
    <3> QED
      BY <1>13, <3>1, WatchedFrame DEF ReadData, Unread
  <2> QED
    BY <2>1, <2>2
<1>14. ASSUME NEW w \in Worker, ReadEof(w) PROVE Watched(f)'
  <2>1. UNCHANGED sock /\ Unread(f) /\ running[w] # f
    BY <1>14 DEF ReadEof, Unread
  <2>2. \A v \in Worker : wk'[v].pc = "reset" => wk[v].pc = "reset" \/ running[v] # f
    BY <1>14, <2>1 DEF ReadEof, WkType
  <2> QED
    BY <1>14, <2>1, <2>2, WatchedFrame DEF ReadEof
<1>15. ASSUME NEW w \in Worker, ReadNothing(w) \/ ResetAfterEof(w) PROVE Watched(f)'
  <2>1. /\ UNCHANGED <<sock, ep, pending, dropped>>
        /\ Unread(f)
        /\ running[w] # f \/ wk[w].pc = "reset"
    BY <1>15 DEF ReadNothing, ResetAfterEof, JobEnds, Unread
  <2>2. \A v \in Worker \ {w} : running'[v] = running[v] /\ wk'[v] = wk[v]
    BY <1>15 DEF ReadNothing, ResetAfterEof, JobEnds, PoolType, WkType
  <2> QED
    BY <2>1, <2>2 DEF Watched
<1>16. ASSUME NEW w \in Worker,
              \/ PacketsEnd(w) \/ RefreshPacket(w) \/ RegisterPacket(w) \/ NewRobot(w)
              \/ FirstLogin(w) \/ LoginAgain(w) \/ OldLogin(w)
              \/ SetTflag(w) \/ SetRhiv(w) \/ SetHiv(w) \/ CountRobot(w)
       PROVE  Watched(f)'
  <2>1. wk'[w].pc # "reset" /\ \A v \in Worker \ {w} : wk'[v] = wk[v]
    <3>1. CASE PacketsEnd(w) \/ RefreshPacket(w)
      BY <3>1 DEF PacketsEnd, RefreshPacket, NextPacket, WkType
    <3>2. CASE RegisterPacket(w)
      BY <3>2 DEF RegisterPacket, NextPacket, WkType
    <3>3. CASE NewRobot(w)
      BY <3>3 DEF NewRobot, WkType
    <3>4. CASE FirstLogin(w) \/ LoginAgain(w) \/ OldLogin(w)
      BY <3>4 DEF FirstLogin, LoginAgain, OldLogin, WkType
    <3>5. CASE SetTflag(w) \/ SetRhiv(w) \/ SetHiv(w) \/ CountRobot(w)
      BY <3>5 DEF SetTflag, SetRhiv, SetHiv, CountRobot, WkType
    <3> QED
      BY <1>16, <3>1, <3>2, <3>3, <3>4, <3>5
  <2>2. UNCHANGED <<sock, ep, pending, running, dropped>>
    BY <1>16 DEF PacketsEnd, RefreshPacket, RegisterPacket, NewRobot, FirstLogin, LoginAgain,
       OldLogin, SetTflag, SetRhiv, SetHiv, CountRobot
  <2> QED
    BY <2>1, <2>2, WatchedFrame DEF Unread
<1>17. CASE ManagerStep \/ HttpStep
  <2>1. UNCHANGED <<ep, pending, running, wk, dropped>>
    BY <1>17 DEF ManagerStep, VisitRegistered, VisitNew, ManagerCloses, Unlink, Clear, ClearNew,
       HttpStep, Request, WriteCommand
  <2>2. sock'[f] = sock[f]
    BY <1>17 DEF ManagerStep, VisitRegistered, VisitNew, ManagerCloses, Unlink, Clear, ClearNew,
       HttpStep, Request, WriteCommand, Closed, Unread
  <2> QED
    BY <2>1, <2>2, WatchedFrame DEF Unread
<1>18. CASE UNCHANGED vars
  BY <1>18, WatchedFrame DEF vars, Unread
<1> QED
  BY <1>1, <1>2, <1>3, <1>4, <1>5, <1>6, <1>7, <1>8, <1>9, <1>10, <1>11, <1>12, <1>13, <1>14,
     <1>15, <1>16, <1>17, <1>18 DEF Next, Environment, EpollStep, WorkerStep

-----------------------------------------------------------------------------
LEMMA InvInit == Init => Inv
<1> SUFFICES ASSUME Init PROVE Inv
  OBVIOUS
<1>1. LoopInv /\ \A f \in Fd : ~Unread(f)
  BY DEF Init, LoopInv, Unread, Closed
<1> QED
  BY <1>1, TypeInit DEF Inv

LEMMA InvAlways == SafeSpec => []Inv
<1>1. Inv /\ [Next]_vars => Inv'
  BY TypeNext, LoopNext, WatchedNext DEF Inv
<1> QED
  BY <1>1, InvInit, PTL DEF SafeSpec

\* The tables of the server and what its threads hold stay well typed: an
\* entry's tfd and tflag are its own index or 0, a slot's handle is an index
\* (main.c:63-85, cm.c, robot.c, socket.c), whatever the threads interleave.
THEOREM TablesTyped == SafeSpec => []TypeOK
<1>1. Inv => TypeOK
  BY DEF Inv, TypeInv, TypeOK, SockType, NetType, InfoType, TableType, PoolType, Entry
<1> QED
  BY <1>1, InvAlways, PTL

\* No data is stranded in a socket, for any number of connections, threads and
\* sizes of the pool (socket.c:103-106, logic.c:9, 80-85).
THEOREM DataIsRead == SafeSpec => []NoStrandedData
<1>1. Inv => NoStrandedData
  BY DEF Inv, NoStrandedData, Unread, Watched
<1> QED
  BY <1>1, InvAlways, PTL

-----------------------------------------------------------------------------
(* What the tables say when the overlaps KeptApart names do not happen and    *)
(* epoll reports no error alone; everything else interleaves.  For any number *)
(* of descriptors, robots, slots and threads, and any environment.           *)
(*                                                                         *)
(* The inductive invariant: the pc of each thread says which entry and which  *)
(* slot disagree for the moment.                                             *)

NoErrors == (\A f \in Fd : ~sock[f].err) /\ \A e \in ep.events : e.kind # "other"

WatchInv ==
  \A f \in Fd :
    /\ sock[f].open <=> Opening(f) \/ (rInfo[f].tfd = f /\ ~Closing(f))
    /\ Opening(f) => rInfo[f].tfd = NoFd

\* A registered entry is a connection's; only a registered entry is flagged -2.
EntryInv ==
  /\ rInfo[NoFd].tfd = NoFd
  /\ \A f \in Fd :
       /\ rInfo[f].tflag # NoFd => rInfo[f].tfd # NoFd
       /\ rInfo[f].cflag = -2 => rInfo[f].tflag # NoFd

MgInv ==
  mg.pc # "scan" =>
    /\ rInfo[mg.fd].tfd # NoFd
    /\ rInfo[mg.fd].tflag = NoFd <=> mg.pc \in {"closeNew", "clearNew"}
    /\ mg.pc = "clear" => \A s \in Slot : rhiv[s] # mg.fd

\* What a thread knows of the connection whose job it runs.
WorkInv ==
  \A w \in Worker :
    /\ wk[w].pc \notin {"idle", "read"} => sock[running[w]].open
    /\ wk[w].pc \in {"login", "old", "tflag"} => rInfo[running[w]].tflag = NoFd
    /\ wk[w].pc \in {"rhiv", "hiv"} =>
         rInfo[running[w]].tflag # NoFd /\ rInfo[running[w]].cflag # -2
    /\ wk[w].pc = "rhiv" => \A s \in Slot : rhiv[s] # running[w]
    /\ wk[w].pc = "hiv" => \A s \in Slot : rhiv[s] = running[w] => s = wk[w].index

\* A handle is a registered entry of that slot, and is flagged -2 only while
\* the slot is about to get another handle.
HandleInv ==
  \A s \in Slot : rhiv[s] # NoFd =>
    /\ rInfo[rhiv[s]].tflag # NoFd
    /\ \/ rInfo[rhiv[s]].hiv = s
       \/ \E w \in Worker : wk[w].pc = "hiv" /\ running[w] = rhiv[s]
    /\ rInfo[rhiv[s]].cflag = -2 =>
         \E w \in Worker : wk[w].pc \in {"old", "tflag", "rhiv"} /\ wk[w].index = s

RegisteredFds == {f \in Fd : rInfo[f].tflag # NoFd}
Uncounted == \E w \in Worker : wk[w].pc \in {"rhiv", "hiv", "count"}
CountInv == Cardinality(RegisteredFds) = IF Uncounted THEN R_CON_NUM + 1 ELSE R_CON_NUM

TablesInv == WatchInv /\ EntryInv /\ MgInv /\ WorkInv /\ HandleInv /\ CountInv

TurnInv == TypeInv /\ NoErrors /\ TablesInv

-----------------------------------------------------------------------------
\* What the steps of one thread leave alone.
LEMMA StepsLeave ==
  /\ EpollStep => UNCHANGED <<mg, http, wk, rhiv, RidHash, R_CON_NUM, running>>
  /\ ManagerStep => UNCHANGED <<ep, http, wk, RidHash, running>>
  /\ HttpStep => UNCHANGED <<sock, rInfo, rhiv, RidHash, R_CON_NUM, ep, mg, wk, running>>
  /\ \A w \in Worker : WorkerStep(w) => UNCHANGED <<ep, mg, http>>
  /\ Environment \/ Tick => UNCHANGED <<ep, mg, http, wk, rhiv, RidHash, R_CON_NUM, running>>
<1> USE DEF serverVars, poolVars, envVars
<1>1. EpollStep => UNCHANGED <<mg, http, wk, rhiv, RidHash, R_CON_NUM, running>>
  BY DEF EpollStep, EpollWait, HandleListen, HandleRdhup, HandleIn, HandleOther,
     Accept, AcceptEnds, Stamp, Enlist, Pool!Submit
<1>2. ManagerStep => UNCHANGED <<ep, http, wk, RidHash, running>>
  BY DEF ManagerStep, VisitRegistered, VisitNew, ManagerCloses, Unlink, Clear, ClearNew
<1>3. HttpStep => UNCHANGED <<sock, rInfo, rhiv, RidHash, R_CON_NUM, ep, mg, wk, running>>
  BY DEF HttpStep, Request, WriteCommand
<1>4. \A w \in Worker : WorkerStep(w) => UNCHANGED <<ep, mg, http>>
  BY ZenonT(40) DEF WorkerStep, StartJob, ReadData, ReadEof, ReadNothing, ResetAfterEof,
     PacketsEnd, RefreshPacket, RegisterPacket, NewRobot, FirstLogin, LoginAgain, OldLogin,
     SetTflag, SetRhiv, SetHiv, CountRobot
<1>5. Environment \/ Tick => UNCHANGED <<ep, mg, http, wk, rhiv, RidHash, R_CON_NUM, running>>
  BY DEF Environment, Tick, Connect, Send, PeerCloses, SocketError
<1> QED
  BY <1>1, <1>2, <1>3, <1>4, <1>5

\* A step of a thread changes what that thread holds.
LEMMA OthersHold ==
  ASSUME TypeInv, NEW w \in Worker, WorkerStep(w)
  PROVE  \A v \in Worker \ {w} : wk'[v] = wk[v] /\ running'[v] = running[v]
<1> USE DEF TypeInv, WkType, PoolType, poolVars
<1>1. CASE StartJob(w)
  BY <1>1 DEF StartJob, Pool!Start
<1>2. CASE ReadData(w) \/ ReadEof(w)
  BY <1>2 DEF ReadData, ReadEof
<1>3. CASE ReadNothing(w) \/ ResetAfterEof(w)
  BY <1>3 DEF ReadNothing, ResetAfterEof, JobEnds
<1>4. CASE PacketsEnd(w) \/ RefreshPacket(w) \/ RegisterPacket(w)
  BY <1>4 DEF PacketsEnd, RefreshPacket, RegisterPacket, NextPacket
<1>5. CASE NewRobot(w) \/ FirstLogin(w) \/ LoginAgain(w) \/ OldLogin(w)
  BY <1>5 DEF NewRobot, FirstLogin, LoginAgain, OldLogin
<1>6. CASE SetTflag(w) \/ SetRhiv(w) \/ SetHiv(w) \/ CountRobot(w)
  BY <1>6 DEF SetTflag, SetRhiv, SetHiv, CountRobot
<1> QED
  BY <1>1, <1>2, <1>3, <1>4, <1>5, <1>6 DEF WorkerStep

\* Who is connected, and to what, changes only in three places.
LEMMA SocketsStay ==
  ASSUME TypeInv, ~ErrEvents,
         Environment \/ Tick \/ EpollWait \/ \E w \in Worker : WorkerStep(w)
  PROVE  \A f \in Fd : /\ sock'[f].open = sock[f].open
                       /\ sock'[f].owner = sock[f].owner
                       /\ sock'[f].err = sock[f].err
<1> USE DEF TypeInv, SockType
<1>1. ASSUME NEW r \in Id, Connect(r) PROVE UNCHANGED sock
  BY <1>1 DEF Connect
<1>2. ASSUME NEW g \in Fd, NEW m \in Packet, Send(g, m)
      PROVE  \A f \in Fd : /\ sock'[f].open = sock[f].open
                           /\ sock'[f].owner = sock[f].owner
                           /\ sock'[f].err = sock[f].err
  <2>1. sock' = [sock EXCEPT ![g] = [sock[g] EXCEPT !.inbox = Append(sock[g].inbox, m), !.edge = TRUE]]
    BY <1>2 DEF Send
  <2> QED
    BY <2>1
<1>3. ASSUME NEW g \in Fd, PeerCloses(g)
      PROVE  \A f \in Fd : /\ sock'[f].open = sock[f].open
                           /\ sock'[f].owner = sock[f].owner
                           /\ sock'[f].err = sock[f].err
  BY <1>3 DEF PeerCloses
<1>4. ~ \E g \in Fd : SocketError(g)
  BY DEF SocketError
<1>5. CASE EpollWait
  BY <1>5 DEF EpollWait
<1>6. ASSUME NEW w \in Worker, ReadData(w)
      PROVE  \A f \in Fd : /\ sock'[f].open = sock[f].open
                           /\ sock'[f].owner = sock[f].owner
                           /\ sock'[f].err = sock[f].err
  BY <1>6 DEF ReadData
<1>7. ASSUME NEW w \in Worker, WorkerStep(w), ~ReadData(w) PROVE UNCHANGED sock
  BY <1>7 DEF WorkerStep, StartJob, ReadEof, ReadNothing, ResetAfterEof,
     PacketsEnd, RefreshPacket, RegisterPacket, NewRobot, FirstLogin, LoginAgain, OldLogin,
     SetTflag, SetRhiv, SetHiv, CountRobot
<1>8. Tick => UNCHANGED sock
  BY DEF Tick
<1> QED
  BY <1>1, <1>2, <1>3, <1>4, <1>5, <1>6, <1>7, <1>8 DEF Environment

\* No socket has an error, so epoll_wait says nothing the loop does not expect.
LEMMA NoErrorsNext ==
  ASSUME ~ErrEvents, TypeInv, NoErrors, [Next]_vars
  PROVE  NoErrors'
<1> USE DEF NoErrors, TypeInv, SockType, EpType
<1>1. CASE Environment
  <2>1. \A f \in Fd : sock'[f].err = sock[f].err
    BY <1>1, SocketsStay
  <2> QED
    BY <1>1, <2>1, StepsLeave
<1>2. CASE EpollWait
  <2>1. \A f \in Fd : ~sock'[f].err
    BY <1>2 DEF EpollWait
  <2>2. ASSUME NEW f \in Fd, Reported(f) PROVE EventKind(f) # "other"
    BY <2>2 DEF Reported, EventKind
  <2>3. \A e \in ep'.events : e.kind # "other"
    BY <1>2, <2>2 DEF EpollWait
  <2> QED
    BY <2>1, <2>3
<1>3. ASSUME NEW e \in ep.events, HandleListen(e) \/ HandleRdhup(e) \/ HandleIn(e) \/ HandleOther(e)
      PROVE  NoErrors'
  <2>1. ~HandleOther(e)
    BY DEF HandleOther
  <2>2. sock' = sock
    BY <1>3, <2>1, Zenon DEF HandleListen, HandleRdhup, HandleIn, envVars, poolVars, serverVars
  <2>3. \E pc \in {"loop", "accept"} : ep' = EpAfter(e, pc)
    BY <1>3, <2>1, Zenon DEF HandleListen, HandleRdhup, HandleIn
  <2>4. ep'.events \subseteq ep.events
    BY <2>3 DEF EpAfter
  <2> QED
    BY <2>2, <2>4
<1>4. CASE Accept
  BY <1>4 DEF Accept, Closed
<1>5. CASE AcceptEnds \/ Stamp \/ Enlist
  BY <1>5 DEF AcceptEnds, Stamp, Enlist
<1>6. ASSUME NEW w \in Worker, WorkerStep(w) PROVE NoErrors'
  BY <1>6, SocketsStay, StepsLeave
<1>7. CASE ManagerStep
  <2>1. \A f \in Fd : ~sock'[f].err
    BY <1>7 DEF ManagerStep, VisitRegistered, VisitNew, ManagerCloses, Unlink, Clear, ClearNew, Closed
  <2> QED
    BY <1>7, <2>1, StepsLeave
<1>8. CASE HttpStep \/ Tick \/ UNCHANGED vars
  BY <1>8, StepsLeave DEF Tick, vars
<1> QED
  BY <1>1, <1>2, <1>3, <1>4, <1>5, <1>6, <1>7, <1>8 DEF Next, EpollStep

-----------------------------------------------------------------------------
(* The tables                                                              *)

\* A step that opens and closes no connection and stores no tfd, tflag, hiv or
\* handle, nor the flag -2.
TablesStay ==
  /\ \A f \in Fd : sock'[f].open = sock[f].open
  /\ \A f \in RFd : /\ rInfo'[f].tfd = rInfo[f].tfd
                    /\ rInfo'[f].tflag = rInfo[f].tflag
                    /\ rInfo'[f].hiv = rInfo[f].hiv
                    /\ rInfo'[f].cflag = -2 => rInfo[f].cflag = -2
  /\ UNCHANGED <<rhiv, R_CON_NUM, mg>>
  /\ \A f \in Fd : Opening(f)' <=> Opening(f)

\* Nor does a thread of the pool come to or leave what it stores.
ThreadsStay ==
  \A w \in Worker :
    /\ wk[w].pc \in {"old", "tflag", "rhiv"} =>
         wk'[w].pc \in {"old", "tflag", "rhiv"} /\ wk'[w].index = wk[w].index
    /\ wk[w].pc = "hiv" => wk'[w].pc = "hiv" /\ running'[w] = running[w]
    /\ wk'[w].pc \in {"rhiv", "hiv", "count"} <=> wk[w].pc \in {"rhiv", "hiv", "count"}

LEMMA TablesStayKeeps ==
  ASSUME TypeInv, TypeInv', WatchInv, EntryInv, MgInv, HandleInv, CountInv, TablesStay, ThreadsStay
  PROVE  WatchInv' /\ EntryInv' /\ MgInv' /\ HandleInv' /\ CountInv'
<1> USE DEF TablesStay
<1>1. WatchInv'
  BY DEF WatchInv, Closing, RFd
<1>2. EntryInv'
  BY DEF EntryInv, RFd
<1>3. MgInv'
  BY DEF MgInv, TypeInv, MgType, RFd
<1>4. HandleInv'
  <2> SUFFICES ASSUME NEW s \in Slot, rhiv[s] # NoFd
               PROVE  /\ rInfo'[rhiv[s]].tflag # NoFd
                      /\ \/ rInfo'[rhiv[s]].hiv = s
                         \/ \E w \in Worker : wk'[w].pc = "hiv" /\ running'[w] = rhiv[s]
                      /\ rInfo'[rhiv[s]].cflag = -2 =>
                           \E w \in Worker : wk'[w].pc \in {"old", "tflag", "rhiv"} /\ wk'[w].index = s
    BY DEF HandleInv
  <2>1. rhiv[s] \in RFd
    BY DEF TypeInv, TableType
  <2> QED
    BY <2>1 DEF HandleInv, ThreadsStay
<1>5. CountInv'
  <2>1. RegisteredFds' = RegisteredFds
    BY DEF RegisteredFds, RFd
  <2>2. Uncounted' <=> Uncounted
    BY DEF Uncounted, ThreadsStay
  <2> QED
    BY <2>1, <2>2 DEF CountInv
<1> QED
  BY <1>1, <1>2, <1>3, <1>4, <1>5

LEMMA WorkStays ==
  ASSUME TypeInv, WorkInv, TablesStay, UNCHANGED <<wk, running>>
  PROVE  WorkInv' /\ ThreadsStay
<1>1. ThreadsStay
  BY DEF ThreadsStay
<1>2. \A w \in Worker : wk[w].pc # "idle" => running[w] \in Fd /\ running[w] \in RFd
  BY DEF TypeInv, WkType, RFd
<1>3. WorkInv'
  BY <1>2 DEF WorkInv, TablesStay
<1> QED
  BY <1>1, <1>3

\* Stamps, and the flag of an active close, are not what the tables are about.
LEMMA StampsStay ==
  ASSUME InfoType, NEW f \in RFd, rInfo' = Updated(f) \/ rInfo' = Reset(f)
  PROVE  \A g \in RFd : /\ rInfo'[g].tfd = rInfo[g].tfd
                        /\ rInfo'[g].tflag = rInfo[g].tflag
                        /\ rInfo'[g].hiv = rInfo[g].hiv
                        /\ rInfo'[g].cflag = -2 => rInfo[g].cflag = -2
<1>1. CASE rInfo' = Updated(f)
  BY <1>1 DEF Updated, InfoType, Entry
<1>2. CASE rInfo' = Reset(f)
  BY <1>2 DEF Reset, InfoType, Entry
<1> QED
  BY <1>1, <1>2

LEMMA EnvironmentKeeps ==
  ASSUME ~ErrEvents, TurnInv, KeptApart, KeptApart', TypeInv', Environment \/ Tick
  PROVE  TablesInv'
<1> USE DEF TurnInv
<1>1. \A f \in RFd : /\ rInfo'[f].tfd = rInfo[f].tfd
                     /\ rInfo'[f].tflag = rInfo[f].tflag
                     /\ rInfo'[f].hiv = rInfo[f].hiv
                     /\ rInfo'[f].cflag = rInfo[f].cflag
  <2>1. CASE Tick
    BY <2>1 DEF Tick, TypeInv, InfoType, Entry
  <2>2. CASE Environment
    BY <2>2 DEF Environment, Connect, Send, PeerCloses, SocketError, serverVars
  <2> QED
    BY <2>1, <2>2
<1>2. TablesStay /\ UNCHANGED <<wk, running>>
  BY <1>1, SocketsStay, StepsLeave DEF TablesStay, Opening
<1> QED
  BY <1>2, TablesStayKeeps, WorkStays DEF TablesInv

LEMMA EpollKeeps ==
  ASSUME ~ErrEvents, TurnInv, KeptApart, KeptApart', TypeInv', EpollStep
  PROVE  TablesInv'
<1> USE DEF TurnInv
<1>2. UNCHANGED <<mg, wk, rhiv, R_CON_NUM, running>>
  BY StepsLeave
<1>3. ASSUME TablesStay PROVE TablesInv'
  BY <1>2, <1>3, TablesStayKeeps, WorkStays DEF TablesInv
<1>4. CASE EpollWait
  <2>1. UNCHANGED rInfo /\ ep.pc = "wait" /\ ep'.pc \in {"wait", "loop"}
    BY <1>4 DEF EpollWait, serverVars, TypeInv, EpType
  <2> QED
    BY <1>2, <1>3, <1>4, <2>1, SocketsStay DEF TablesStay, Opening
<1>5. ASSUME NEW e \in ep.events, HandleListen(e) \/ HandleIn(e) PROVE TablesInv'
  <2>1. UNCHANGED <<rInfo, sock>> /\ ep.pc = "loop" /\ ep'.pc \in {"wait", "loop", "accept"}
    BY <1>5 DEF HandleListen, HandleIn, EpAfter, serverVars, TypeInv, EpType
  <2> QED
    BY <1>2, <1>3, <2>1 DEF TablesStay, Opening
<1>6. ASSUME NEW e \in ep.events, HandleRdhup(e) PROVE TablesInv'
  <2>1. UNCHANGED sock /\ ep.pc = "loop" /\ ep'.pc \in {"wait", "loop"} /\ rInfo' = Reset(e.fd) /\ e.fd \in RFd
    BY <1>6 DEF HandleRdhup, EpAfter, TypeInv, EpType, Event
  <2> QED
    BY <1>2, <1>3, <2>1, StampsStay DEF TablesStay, Opening, TypeInv
<1>7. ASSUME NEW e \in ep.events PROVE ~HandleOther(e)
  BY <1>7 DEF HandleOther, NoErrors
<1>8. CASE Accept
  <2>1. PICK f \in Fd :
          /\ ~sock[f].open
          /\ sock' = [sock EXCEPT ![f] = [Closed EXCEPT !.open = TRUE, !.owner = Head(backlog)]]
          /\ ep' = [ep EXCEPT !.pc = "stamp", !.fd = f]
    BY <1>8 DEF Accept, FreeFd
  <2>2. UNCHANGED rInfo /\ ep.pc = "accept"
    BY <1>8 DEF Accept, serverVars
  <2>4. \A g \in Fd : /\ sock'[g].open <=> sock[g].open \/ g = f
                      /\ Opening(g)' <=> g = f
                      /\ ~Opening(g) /\ (Closing(g)' <=> Closing(g))
    BY <1>2, <2>1, <2>2 DEF Closed, Opening, Closing, TypeInv, SockType, EpType
  <2>7. ~Closing(f)
    BY <2>1, <2>4 DEF KeptApart
  <2>3. rInfo[f].tfd = NoFd
    BY <2>1, <2>7 DEF TablesInv, WatchInv, TypeInv, InfoType
  <2>5. WatchInv'
    BY <2>2, <2>3, <2>4, <2>7 DEF TablesInv, WatchInv
  <2>6. EntryInv' /\ MgInv' /\ HandleInv' /\ CountInv'
    BY <1>2, <2>2 DEF TablesInv, EntryInv, MgInv, HandleInv, CountInv, Uncounted, RegisteredFds
  <2>8. WorkInv'
    <3>1. \A w \in Worker : wk[w].pc # "idle" => running[w] \in Fd
      BY DEF TypeInv, WkType
    <3> QED
      BY <1>2, <2>2, <2>4, <3>1 DEF TablesInv, WorkInv
  <2> QED
    BY <2>5, <2>6, <2>8 DEF TablesInv
<1>9. CASE AcceptEnds
  <2>1. UNCHANGED <<rInfo, sock>> /\ ep.pc = "accept" /\ ep'.pc \in {"wait", "loop"}
    BY <1>9 DEF AcceptEnds, serverVars, TypeInv, EpType
  <2> QED
    BY <1>2, <1>3, <2>1 DEF TablesStay, Opening
<1>10. CASE Stamp
  <2>1. UNCHANGED sock /\ ep.pc = "stamp" /\ ep'.pc = "enlist" /\ ep'.fd = ep.fd /\ rInfo' = Updated(ep.fd) /\ ep.fd \in RFd
    BY <1>10 DEF Stamp, TypeInv, EpType
  <2> QED
    BY <1>2, <1>3, <2>1, StampsStay DEF TablesStay, Opening, TypeInv
<1>11. CASE Enlist
  <2> DEFINE f == ep.fd
  <2>1. /\ UNCHANGED sock /\ ep.pc = "enlist" /\ ep'.pc = "accept" /\ f \in Fd
        /\ rInfo' = [rInfo EXCEPT ![f].tfd = f]
    BY <1>11 DEF Enlist, TypeInv, EpType
  <2> HIDE DEF f
  <2>2. \A g \in RFd : /\ rInfo'[g].tfd = IF g = f THEN f ELSE rInfo[g].tfd
                       /\ rInfo'[g].tflag = rInfo[g].tflag
                       /\ rInfo'[g].hiv = rInfo[g].hiv
                       /\ rInfo'[g].cflag = rInfo[g].cflag
    BY <2>1 DEF TypeInv, InfoType, Entry
  <2>3. \A g \in Fd : /\ Opening(g) <=> g = f
                      /\ ~Opening(g)' /\ (Closing(g)' <=> Closing(g))
    BY <1>2, <2>1 DEF Opening, Closing, f
  <2>9. ~Closing(f)
    BY <2>1, <2>3 DEF TablesInv, WatchInv, KeptApart
  <2>4. WatchInv'
    BY <2>1, <2>2, <2>3, <2>9 DEF TablesInv, WatchInv, RFd
  <2>5. EntryInv'
    BY <2>1, <2>2, FdAssumption DEF TablesInv, EntryInv, RFd, NoFd
  <2>6. MgInv'
    BY <1>2, <2>1, <2>2, FdAssumption DEF TablesInv, MgInv, TypeInv, MgType, RFd, NoFd
  <2>10. WorkInv'
    <3>1. \A w \in Worker : wk[w].pc # "idle" => running[w] \in RFd
      BY DEF TypeInv, WkType, RFd
    <3> QED
      BY <1>2, <2>1, <2>2, <3>1 DEF TablesInv, WorkInv
  <2>7. HandleInv'
    BY <1>2, <2>2 DEF TablesInv, HandleInv, TypeInv, TableType
  <2>8. CountInv'
    <3>1. RegisteredFds' = RegisteredFds /\ (Uncounted' <=> Uncounted)
      BY <1>2, <2>2 DEF RegisteredFds, Uncounted, RFd
    <3> QED
      BY <1>2, <3>1 DEF TablesInv, CountInv
  <2> QED
    BY <2>4, <2>5, <2>6, <2>7, <2>8, <2>10 DEF TablesInv
<1> QED
  BY <1>4, <1>5, <1>6, <1>7, <1>8, <1>9, <1>10, <1>11 DEF EpollStep

\* While a thread of the pool makes a step, the others hold what they had; if it
\* is in RobotInit, no other is, and nobody opens or closes its connection.
LEMMA WorkerTurn ==
  ASSUME ~ErrEvents, TurnInv, KeptApart, NEW w \in Worker, WorkerStep(w)
  PROVE  /\ UNCHANGED <<mg, ep>>
         /\ \A v \in Worker \ {w} : wk'[v] = wk[v] /\ running'[v] = running[v]
         /\ \A f \in Fd : Opening(f)' <=> Opening(f)
         /\ InLogin(w) =>
              /\ \A v \in Worker \ {w} : ~InLogin(v)
              /\ mg.pc # "scan" => running[w] # mg.fd
              /\ running[w] \in Fd /\ sock[running[w]].open
              /\ rInfo[running[w]].tfd = running[w]
<1>1. UNCHANGED <<mg, ep>>
  BY StepsLeave
<1>2. \A v \in Worker \ {w} : wk'[v] = wk[v] /\ running'[v] = running[v]
  BY OthersHold DEF TurnInv
<1>3. \A f \in Fd : Opening(f)' <=> Opening(f)
  BY <1>1 DEF Opening
<1>4. ASSUME InLogin(w)
      PROVE  /\ \A v \in Worker \ {w} : ~InLogin(v)
             /\ mg.pc # "scan" => running[w] # mg.fd
             /\ running[w] \in Fd /\ sock[running[w]].open
             /\ rInfo[running[w]].tfd = running[w]
  <2>1. AtWork(w)
    BY <1>4 DEF InLogin, AtWork
  <2>2. running[w] \in Fd /\ sock[running[w]].open
    BY <2>1 DEF AtWork, TurnInv, TypeInv, WkType, TablesInv, WorkInv
  <2>3. ~Opening(running[w])
    BY <2>1 DEF KeptApart
  <2> QED
    BY <1>4, <2>1, <2>2, <2>3 DEF KeptApart, TurnInv, TablesInv, WatchInv
<1> QED
  BY <1>1, <1>2, <1>3, <1>4

\* The steps of a thread that store no tfd, tflag, hiv, handle or flag -2.
LEMMA WorkerPlainKeeps ==
  ASSUME ~ErrEvents, TurnInv, KeptApart, KeptApart', TypeInv', NEW w \in Worker, WorkerStep(w),
         ~(LoginAgain(w) \/ SetTflag(w) \/ SetRhiv(w) \/ SetHiv(w) \/ CountRobot(w))
  PROVE  TablesInv'
<1> USE DEF TurnInv
<1> DEFINE f == running[w]
<1>1. /\ UNCHANGED <<mg, ep>>
      /\ \A g \in Fd : Opening(g)' <=> Opening(g)
      /\ \A v \in Worker \ {w} : wk'[v] = wk[v] /\ running'[v] = running[v]
  BY WorkerTurn
<1>2. \A g \in Fd : sock'[g].open = sock[g].open
  BY SocketsStay
<1>3. wk[w].pc # "idle" => f \in Fd /\ f \in RFd
  BY DEF TypeInv, WkType, RFd
<1>4. /\ UNCHANGED <<rhiv, R_CON_NUM>>
      /\ \A g \in RFd : /\ rInfo'[g].tfd = rInfo[g].tfd
                        /\ rInfo'[g].tflag = rInfo[g].tflag
                        /\ rInfo'[g].hiv = rInfo[g].hiv
                        /\ rInfo'[g].cflag = -2 => rInfo[g].cflag = -2
  <2>1. CASE StartJob(w) \/ ReadData(w) \/ ReadEof(w) \/ ReadNothing(w) \/ PacketsEnd(w)
             \/ RegisterPacket(w) \/ NewRobot(w) \/ FirstLogin(w)
    BY <2>1 DEF StartJob, ReadData, ReadEof, ReadNothing, PacketsEnd, RegisterPacket, NewRobot,
       FirstLogin, serverVars
  <2>2. CASE ResetAfterEof(w)
    BY <1>3, <2>2, StampsStay DEF ResetAfterEof, TypeInv
  <2>3. CASE RefreshPacket(w)
    BY <1>3, <2>3, StampsStay DEF RefreshPacket, TypeInv
  <2>4. CASE OldLogin(w)
    <3> DEFINE h == rhiv[wk[w].index]
    <3>1. h \in RFd
      BY DEF TypeInv, TableType, WkType
    <3>2. rInfo' = [rInfo EXCEPT ![h].age = HEART_TIME] /\ UNCHANGED <<rhiv, R_CON_NUM>>
      BY <2>4 DEF OldLogin
    <3> HIDE DEF h
    <3> QED
      BY <3>1, <3>2 DEF TypeInv, InfoType, Entry
  <2> QED
    BY <2>1, <2>2, <2>3, <2>4 DEF WorkerStep
<1>5. TablesStay
  BY <1>1, <1>2, <1>4 DEF TablesStay
\* Where the step takes the thread.
<1>6. \/ wk'[w].pc \in {"idle", "read"} /\ wk[w].pc \notin {"old", "tflag", "rhiv", "hiv", "count"}
      \/ wk'[w].pc \in {"parse", "reset"} /\ wk[w].pc \in {"read", "parse"} /\ sock[f].open
            /\ running' = running
      \/ wk'[w].pc = "login" /\ wk[w].pc = "parse" /\ rInfo[f].tflag = NoFd /\ running' = running
      \/ wk'[w].pc = "tflag" /\ wk[w].pc = "login" /\ running' = running
      \/ wk'[w].pc = "tflag" /\ wk[w].pc = "old" /\ wk'[w].index = wk[w].index /\ running' = running
  <2> USE DEF TypeInv, WkType
  <2>1. CASE StartJob(w)
    BY <2>1 DEF StartJob
  <2>2. CASE ReadData(w) \/ ReadEof(w)
    BY <2>2 DEF ReadData, ReadEof, poolVars
  <2>3. CASE ReadNothing(w) \/ ResetAfterEof(w)
    BY <2>3 DEF ReadNothing, ResetAfterEof, JobEnds
  <2>4. CASE PacketsEnd(w)
    BY <2>4 DEF PacketsEnd
  <2>5. CASE RefreshPacket(w) \/ RegisterPacket(w)
    BY <2>5 DEF RefreshPacket, RegisterPacket, NextPacket, poolVars, TablesInv, WorkInv
  <2>6. CASE NewRobot(w) \/ FirstLogin(w) \/ OldLogin(w)
    BY <2>6 DEF NewRobot, FirstLogin, OldLogin, poolVars
  <2> QED
    BY <2>1, <2>2, <2>3, <2>4, <2>5, <2>6 DEF WorkerStep
<1> HIDE DEF f
<1>7. ThreadsStay
  BY <1>1, <1>6 DEF ThreadsStay
<1>8. WorkInv'
  <2>1. ASSUME NEW v \in Worker \ {w}
        PROVE  /\ wk'[v].pc \notin {"idle", "read"} => sock'[running'[v]].open
               /\ wk'[v].pc \in {"login", "old", "tflag"} => rInfo'[running'[v]].tflag = NoFd
               /\ wk'[v].pc \in {"rhiv", "hiv"} =>
                    rInfo'[running'[v]].tflag # NoFd /\ rInfo'[running'[v]].cflag # -2
               /\ wk'[v].pc = "rhiv" => \A s \in Slot : rhiv'[s] # running'[v]
               /\ wk'[v].pc = "hiv" => \A s \in Slot : rhiv'[s] = running'[v] => s = wk'[v].index
    <3>1. wk[v].pc # "idle" => running[v] \in Fd /\ running[v] \in RFd
      BY DEF TypeInv, WkType, RFd
    <3> QED
      BY <1>1, <1>2, <1>4, <3>1 DEF TablesInv, WorkInv
  <2>2. /\ wk'[w].pc \notin {"idle", "read"} => sock'[running'[w]].open
        /\ wk'[w].pc \in {"login", "old", "tflag"} => rInfo'[running'[w]].tflag = NoFd
        /\ wk'[w].pc \notin {"rhiv", "hiv"}
    BY <1>2, <1>3, <1>4, <1>6 DEF TablesInv, WorkInv, f
  <2> QED
    BY <2>1, <2>2 DEF WorkInv
<1> QED
  BY <1>5, <1>7, <1>8, TablesStayKeeps DEF TablesInv

LEMMA LoginAgainKeeps ==
  ASSUME ~ErrEvents, TurnInv, KeptApart, KeptApart', TypeInv', NEW w \in Worker, LoginAgain(w)
  PROVE  TablesInv'
<1> USE DEF TurnInv
<1> DEFINE i == wk[w].index
           h == rhiv[i]
<1>1. /\ UNCHANGED <<mg, ep>>
      /\ \A v \in Worker \ {w} : ~InLogin(v) /\ wk'[v] = wk[v]
  <2>1. WorkerStep(w) /\ InLogin(w)
    BY DEF WorkerStep, InLogin, LoginAgain
  <2> QED
    BY <2>1, WorkerTurn
<1>2. /\ wk[w].pc = "login" /\ rInfo[h].tfd # NoFd /\ UNCHANGED <<sock, rhiv, R_CON_NUM, running>>
      /\ rInfo' = [rInfo EXCEPT ![h].cflag = -2]
      /\ wk' = [wk EXCEPT ![w].pc = "old"]
  BY DEF LoginAgain, poolVars
<1>3. i \in Slot /\ h \in RFd /\ wk'[w].pc = "old" /\ wk'[w].index = i
  BY <1>2 DEF TypeInv, TableType, WkType
<1> HIDE DEF h
<1>4. \A g \in RFd : /\ rInfo'[g].tfd = rInfo[g].tfd
                     /\ rInfo'[g].tflag = rInfo[g].tflag
                     /\ rInfo'[g].hiv = rInfo[g].hiv
                     /\ rInfo'[g].cflag = IF g = h THEN -2 ELSE rInfo[g].cflag
  BY <1>2, <1>3 DEF TypeInv, InfoType, Entry
<1>5. h \in Fd /\ rInfo[h].tflag # NoFd
  BY <1>2, <1>3 DEF TablesInv, EntryInv, HandleInv, RFd, h
<1>6. WatchInv' /\ EntryInv' /\ MgInv'
  BY <1>1, <1>2, <1>4, <1>5 DEF TablesInv, WatchInv, EntryInv, MgInv, Opening, Closing, RFd
<1>7. WorkInv'
  <2>1. running[w] \in RFd
    BY <1>2 DEF TypeInv, WkType, RFd
  <2> QED
    BY <1>1, <1>2, <1>3, <1>4, <2>1 DEF TablesInv, WorkInv, InLogin, TypeInv, WkType, RFd
<1>8. HandleInv'
  <2> SUFFICES ASSUME NEW s \in Slot, rhiv[s] # NoFd
               PROVE  /\ rInfo'[rhiv[s]].tflag # NoFd
                      /\ rInfo'[rhiv[s]].hiv = s
                      /\ rInfo'[rhiv[s]].cflag = -2 => s = i
    BY <1>2, <1>3 DEF HandleInv
  <2>1. rhiv[s] \in RFd
    BY DEF TypeInv, TableType
  <2>2. rInfo[rhiv[s]].tflag # NoFd /\ rInfo[rhiv[s]].hiv = s /\ rInfo[rhiv[s]].cflag # -2
    BY <1>1, <1>2 DEF TablesInv, HandleInv, InLogin
  <2>3. rInfo[h].hiv = i
    BY <1>1, <1>2, <1>3, <1>5, FdAssumption DEF TablesInv, HandleInv, InLogin, h, NoFd
  <2> QED
    BY <1>4, <2>1, <2>2, <2>3
<1>9. CountInv'
  <2>1. RegisteredFds' = RegisteredFds
    BY <1>4 DEF RegisteredFds, RFd
  <2>2. Uncounted' <=> Uncounted
    BY <1>1, <1>2, <1>3 DEF Uncounted, InLogin
  <2> QED
    BY <1>2, <2>1, <2>2 DEF TablesInv, CountInv
<1> QED
  BY <1>6, <1>7, <1>8, <1>9 DEF TablesInv

\* What the four steps of a registration have in common.
LEMMA LoggingIn ==
  ASSUME ~ErrEvents, TurnInv, KeptApart, NEW w \in Worker,
         SetTflag(w) \/ SetRhiv(w) \/ SetHiv(w) \/ CountRobot(w)
  PROVE  /\ UNCHANGED <<mg, ep, sock, running, RidHash>>
         /\ \A v \in Worker \ {w} :
              /\ wk[v].pc \notin {"login", "old", "tflag", "rhiv", "hiv", "count"}
              /\ wk'[v] = wk[v]
         /\ mg.pc # "scan" => running[w] # mg.fd
         /\ running[w] \in Fd /\ running[w] \in RFd /\ wk[w].index \in Slot
         /\ sock[running[w]].open /\ rInfo[running[w]].tfd = running[w]
         /\ \A g \in Fd : Opening(g)' <=> Opening(g)
<1>1. WorkerStep(w)
  BY DEF WorkerStep
<1>2. wk[w].pc \in {"tflag", "rhiv", "hiv", "count"} /\ UNCHANGED <<sock, running, RidHash>>
  BY DEF SetTflag, SetRhiv, SetHiv, CountRobot, poolVars
<1>3. running[w] \in Fd /\ running[w] \in RFd /\ wk[w].index \in Slot
  BY <1>2, HoldsFd DEF TurnInv, TypeInv
<1>4. InLogin(w)
  BY <1>2 DEF InLogin
<1> QED
  BY <1>1, <1>2, <1>3, <1>4, WorkerTurn DEF InLogin

LEMMA SetTflagKeeps ==
  ASSUME ~ErrEvents, TurnInv, KeptApart, KeptApart', TypeInv', NEW w \in Worker, SetTflag(w)
  PROVE  TablesInv'
<1> USE DEF TurnInv
<1> DEFINE f == running[w]
<1>1. /\ UNCHANGED <<mg, ep, sock, running>>
      /\ \A v \in Worker \ {w} :
           /\ wk[v].pc \notin {"login", "old", "tflag", "rhiv", "hiv", "count"}
           /\ wk'[v] = wk[v]
      /\ mg.pc # "scan" => running[w] # mg.fd
      /\ f \in Fd /\ f \in RFd /\ rInfo[f].tfd = f
      /\ \A g \in Fd : Opening(g)' <=> Opening(g)
      /\ sock[f].open
  BY LoggingIn
<1>2. /\ wk[w].pc = "tflag" /\ wk'[w].pc = "rhiv" /\ wk'[w].index = wk[w].index
      /\ UNCHANGED <<rhiv, R_CON_NUM>>
      /\ rInfo' = [rInfo EXCEPT ![f].tflag = f]
  BY DEF SetTflag, TypeInv, WkType
<1>3. rInfo[f].tflag = NoFd /\ rInfo[f].cflag # -2 /\ \A s \in Slot : rhiv[s] # f
  <2>1. rInfo[f].tflag = NoFd
    BY <1>2 DEF TablesInv, WorkInv
  <2> QED
    BY <1>1, <2>1, FdAssumption DEF TablesInv, EntryInv, HandleInv, NoFd
<1>4. f # NoFd
  BY <1>1, FdAssumption DEF NoFd
<1>10. sock[f].open
  BY <1>1
<1> HIDE DEF f
<1>5. \A g \in RFd : /\ rInfo'[g].tfd = rInfo[g].tfd
                     /\ rInfo'[g].tflag = IF g = f THEN f ELSE rInfo[g].tflag
                     /\ rInfo'[g].hiv = rInfo[g].hiv
                     /\ rInfo'[g].cflag = rInfo[g].cflag
  BY <1>1, <1>2 DEF TypeInv, InfoType, Entry
<1>6. WatchInv' /\ EntryInv' /\ MgInv'
  <2>1. WatchInv'
    BY <1>1, <1>2, <1>4, <1>5 DEF TablesInv, WatchInv, Closing, RFd
  <2>2. EntryInv'
    BY <1>1, <1>2, <1>4, <1>5, FdAssumption DEF TablesInv, EntryInv, RFd, NoFd
  <2>3. MgInv'
    <3>1. mg.pc # "scan" => mg.fd \in RFd /\ mg.fd # f
      BY <1>1 DEF TypeInv, MgType, RFd, f
    <3> QED
      BY <1>1, <1>2, <1>5, <3>1 DEF TablesInv, MgInv
  <2> QED
    BY <2>1, <2>2, <2>3
<1>7. WorkInv'
  BY <1>1, <1>2, <1>3, <1>4, <1>5, <1>10 DEF TablesInv, WorkInv, f
<1>8. HandleInv'
  <2> SUFFICES ASSUME NEW s \in Slot, rhiv[s] # NoFd
               PROVE  /\ rInfo'[rhiv[s]].tflag # NoFd
                      /\ rInfo'[rhiv[s]].hiv = s
                      /\ rInfo'[rhiv[s]].cflag = -2 => s = wk[w].index
    BY <1>2 DEF HandleInv
  <2>1. rhiv[s] \in RFd
    BY DEF TypeInv, TableType
  <2>2. /\ rInfo[rhiv[s]].tflag # NoFd /\ rInfo[rhiv[s]].hiv = s
        /\ rInfo[rhiv[s]].cflag = -2 => s = wk[w].index
    BY <1>1, <1>2 DEF TablesInv, HandleInv
  <2> QED
    BY <1>3, <1>5, <2>1, <2>2
<1>9. CountInv'
  <2>1. RegisteredFds' = RegisteredFds \cup {f} /\ f \notin RegisteredFds /\ RegisteredFds \subseteq Fd
    BY <1>1, <1>3, <1>4, <1>5 DEF RegisteredFds, RFd
  <2>2. Cardinality(RegisteredFds') = Cardinality(RegisteredFds) + 1
    BY <2>1, FS_AddElement, FS_Subset, FdAssumption
  <2>3. ~Uncounted /\ Uncounted'
    BY <1>1, <1>2 DEF Uncounted
  <2> QED
    BY <1>2, <2>2, <2>3 DEF TablesInv, CountInv
<1> QED
  BY <1>6, <1>7, <1>8, <1>9 DEF TablesInv

LEMMA SetRhivKeeps ==
  ASSUME ~ErrEvents, TurnInv, KeptApart, KeptApart', TypeInv', NEW w \in Worker, SetRhiv(w)
  PROVE  TablesInv'
<1> USE DEF TurnInv
<1> DEFINE f == running[w]
           i == wk[w].index
<1>1. /\ UNCHANGED <<mg, ep, sock, running>>
      /\ \A v \in Worker \ {w} :
           /\ wk[v].pc \notin {"login", "old", "tflag", "rhiv", "hiv", "count"}
           /\ wk'[v] = wk[v]
      /\ mg.pc # "scan" => running[w] # mg.fd
      /\ f \in Fd /\ i \in Slot /\ sock[f].open
  BY LoggingIn
<1>2. /\ wk[w].pc = "rhiv" /\ wk'[w].pc = "hiv" /\ wk'[w].index = i
      /\ UNCHANGED <<rInfo, R_CON_NUM>>
      /\ rhiv' = [rhiv EXCEPT ![i] = f]
  BY DEF SetRhiv, TypeInv, WkType
<1>3. rInfo[f].tflag # NoFd /\ rInfo[f].cflag # -2 /\ \A s \in Slot : rhiv[s] # f
  BY <1>2 DEF TablesInv, WorkInv
<1> HIDE DEF f, i
<1>4. \A s \in Slot : rhiv'[s] = IF s = i THEN f ELSE rhiv[s]
  BY <1>1, <1>2 DEF TypeInv, TableType
<1>5. WatchInv' /\ EntryInv' /\ MgInv'
  BY <1>1, <1>2 DEF TablesInv, WatchInv, EntryInv, MgInv, Closing, Opening
<1>6. WorkInv'
  BY <1>1, <1>2, <1>3, <1>4 DEF TablesInv, WorkInv, f
<1>7. HandleInv'
  <2> SUFFICES ASSUME NEW s \in Slot, rhiv'[s] # NoFd
               PROVE  /\ rInfo[rhiv'[s]].tflag # NoFd
                      /\ rInfo[rhiv'[s]].hiv = s \/ f = rhiv'[s]
                      /\ rInfo[rhiv'[s]].cflag # -2
    BY <1>1, <1>2 DEF HandleInv, f
  <2>1. CASE s = i
    BY <1>3, <1>4, <2>1
  <2>2. CASE s # i
    BY <1>1, <1>2, <1>4, <2>2 DEF TablesInv, HandleInv, i
  <2> QED
    BY <2>1, <2>2
<1>8. CountInv'
  <2>1. Uncounted /\ Uncounted' /\ RegisteredFds' = RegisteredFds
    BY <1>2 DEF Uncounted, RegisteredFds
  <2> QED
    BY <1>2, <2>1 DEF TablesInv, CountInv
<1> QED
  BY <1>5, <1>6, <1>7, <1>8 DEF TablesInv

LEMMA SetHivKeeps ==
  ASSUME ~ErrEvents, TurnInv, KeptApart, KeptApart', TypeInv', NEW w \in Worker, SetHiv(w)
  PROVE  TablesInv'
<1> USE DEF TurnInv
<1> DEFINE f == running[w]
           i == wk[w].index
<1>1. /\ UNCHANGED <<mg, ep, sock, running>>
      /\ \A v \in Worker \ {w} :
           /\ wk[v].pc \notin {"login", "old", "tflag", "rhiv", "hiv", "count"}
           /\ wk'[v] = wk[v]
      /\ mg.pc # "scan" => running[w] # mg.fd
      /\ f \in Fd /\ f \in RFd /\ i \in Slot /\ sock[f].open
  BY LoggingIn
<1>2. /\ wk[w].pc = "hiv" /\ wk'[w].pc = "count" /\ UNCHANGED <<rhiv, R_CON_NUM>>
      /\ rInfo' = [rInfo EXCEPT ![f].hiv = i]
  BY DEF SetHiv, TypeInv, WkType
<1>3. /\ rInfo[f].tflag # NoFd /\ rInfo[f].cflag # -2
      /\ \A s \in Slot : rhiv[s] = f => s = i
  BY <1>2 DEF TablesInv, WorkInv
<1>10. f # NoFd
  BY <1>1, FdAssumption DEF NoFd
<1> HIDE DEF f, i
<1>4. \A g \in RFd : /\ rInfo'[g].tfd = rInfo[g].tfd
                     /\ rInfo'[g].tflag = rInfo[g].tflag
                     /\ rInfo'[g].hiv = IF g = f THEN i ELSE rInfo[g].hiv
                     /\ rInfo'[g].cflag = rInfo[g].cflag
  BY <1>1, <1>2 DEF TypeInv, InfoType, Entry
<1>5. WatchInv' /\ EntryInv' /\ MgInv'
  BY <1>1, <1>2, <1>4 DEF TablesInv, WatchInv, EntryInv, MgInv, Closing, Opening, RFd
<1>6. WorkInv'
  BY <1>1, <1>2 DEF TablesInv, WorkInv, f
<1>7. HandleInv'
  <2> SUFFICES ASSUME NEW s \in Slot, rhiv[s] # NoFd
               PROVE  /\ rInfo'[rhiv[s]].tflag # NoFd
                      /\ rInfo'[rhiv[s]].hiv = s
                      /\ rInfo'[rhiv[s]].cflag # -2
    BY <1>2 DEF HandleInv
  <2>1. rhiv[s] \in RFd
    BY DEF TypeInv, TableType
  <2>2. rInfo[rhiv[s]].tflag # NoFd /\ rInfo[rhiv[s]].cflag # -2
    BY <1>1, <1>2 DEF TablesInv, HandleInv
  <2>3. rhiv[s] # f => rInfo[rhiv[s]].hiv = s
    BY <1>1, <1>2 DEF TablesInv, HandleInv, f
  <2> QED
    BY <1>3, <1>4, <2>1, <2>2, <2>3
<1>8. CountInv'
  <2>1. RegisteredFds' = RegisteredFds
    BY <1>4 DEF RegisteredFds, RFd
  <2>2. Uncounted /\ Uncounted'
    BY <1>2 DEF Uncounted
  <2> QED
    BY <1>2, <2>1, <2>2 DEF TablesInv, CountInv
<1> QED
  BY <1>5, <1>6, <1>7, <1>8 DEF TablesInv

LEMMA CountRobotKeeps ==
  ASSUME ~ErrEvents, TurnInv, KeptApart, KeptApart', TypeInv', NEW w \in Worker, CountRobot(w)
  PROVE  TablesInv'
<1> USE DEF TurnInv
<1>1. /\ UNCHANGED <<mg, ep, sock, running>>
      /\ \A v \in Worker \ {w} :
           /\ wk[v].pc \notin {"login", "old", "tflag", "rhiv", "hiv", "count"}
           /\ wk'[v] = wk[v]
      /\ mg.pc # "scan" => running[w] # mg.fd
      /\ running[w] \in RFd /\ sock[running[w]].open
  BY LoggingIn
<1>2. /\ wk[w].pc = "count" /\ wk'[w].pc = "parse" /\ UNCHANGED rhiv
      /\ R_CON_NUM' = R_CON_NUM + 1
      /\ rInfo' = Updated(running[w])
  BY DEF CountRobot, TypeInv, WkType
<1>3. \A g \in RFd : /\ rInfo'[g].tfd = rInfo[g].tfd
                     /\ rInfo'[g].tflag = rInfo[g].tflag
                     /\ rInfo'[g].hiv = rInfo[g].hiv
                     /\ rInfo'[g].cflag = -2 => rInfo[g].cflag = -2
  BY <1>1, <1>2, StampsStay DEF TypeInv
<1>4. WatchInv' /\ EntryInv' /\ MgInv'
  <2>1. WatchInv' /\ EntryInv'
    BY <1>1, <1>2, <1>3 DEF TablesInv, WatchInv, EntryInv, Closing, Opening, RFd
  <2>2. MgInv'
    <3>1. mg.pc # "scan" => mg.fd \in RFd
      BY DEF TypeInv, MgType
    <3> QED
      BY <1>1, <1>2, <1>3, <3>1 DEF TablesInv, MgInv
  <2> QED
    BY <2>1, <2>2
<1>5. WorkInv'
  BY <1>1, <1>2 DEF TablesInv, WorkInv
<1>6. HandleInv'
  <2> SUFFICES ASSUME NEW s \in Slot, rhiv[s] # NoFd
               PROVE  /\ rInfo'[rhiv[s]].tflag # NoFd
                      /\ rInfo'[rhiv[s]].hiv = s
                      /\ rInfo'[rhiv[s]].cflag # -2
    BY <1>2 DEF HandleInv
  <2>1. rhiv[s] \in RFd
    BY DEF TypeInv, TableType
  <2>2. rInfo[rhiv[s]].tflag # NoFd /\ rInfo[rhiv[s]].hiv = s /\ rInfo[rhiv[s]].cflag # -2
    BY <1>1, <1>2 DEF TablesInv, HandleInv
  <2> QED
    BY <1>3, <2>1, <2>2
<1>7. CountInv'
  <2>1. RegisteredFds' = RegisteredFds
    BY <1>3 DEF RegisteredFds, RFd
  <2>2. Uncounted /\ ~Uncounted'
    BY <1>1, <1>2 DEF Uncounted
  <2> QED
    BY <1>2, <2>1, <2>2 DEF TablesInv, CountInv
<1> QED
  BY <1>4, <1>5, <1>6, <1>7 DEF TablesInv

LEMMA ManagerKeeps ==
  ASSUME ~ErrEvents, TurnInv, KeptApart, KeptApart', TypeInv', ManagerStep
  PROVE  TablesInv'
<1> USE DEF TurnInv
<1> DEFINE f == mg.fd
<1>1. /\ UNCHANGED <<ep, wk, running>>
      /\ \A g \in Fd : Opening(g)' <=> Opening(g)
      /\ Uncounted' <=> Uncounted
  BY StepsLeave DEF Opening, Uncounted
<1>2. \A w \in Worker : AtWork(w) => running[w] \in Fd /\ running[w] \in RFd
  BY DEF AtWork, TypeInv, WkType, RFd
\* What the threads are working on is not what the manager stores to.
<1>11. ASSUME \A w \in Worker : AtWork(w) =>
               /\ sock'[running[w]].open = sock[running[w]].open
               /\ rInfo'[running[w]] = rInfo[running[w]],
             \A s \in Slot : rhiv'[s] # NoFd => rhiv'[s] = rhiv[s]
      PROVE  WorkInv'
  <2> SUFFICES ASSUME NEW w \in Worker
               PROVE  /\ AtWork(w) => sock'[running[w]].open
                      /\ wk[w].pc \in {"login", "old", "tflag"} => rInfo'[running[w]].tflag = NoFd
                      /\ wk[w].pc \in {"rhiv", "hiv"} =>
                           rInfo'[running[w]].tflag # NoFd /\ rInfo'[running[w]].cflag # -2
                      /\ wk[w].pc = "rhiv" => \A s \in Slot : rhiv'[s] # running[w]
                      /\ wk[w].pc = "hiv" => \A s \in Slot : rhiv'[s] = running[w] => s = wk[w].index
    BY <1>1 DEF WorkInv, AtWork
  <2>1. CASE AtWork(w)
    <3>1. running[w] # NoFd
      BY <1>2, <2>1, FdAssumption DEF NoFd
    <3> QED
      BY <1>11, <2>1, <3>1 DEF TablesInv, WorkInv, AtWork
  <2>2. CASE ~AtWork(w)
    BY <2>2 DEF AtWork
  <2> QED
    BY <2>1, <2>2
\* A slot whose handle the manager gives up is the entry's, and not flagged.
<1>3. ASSUME mg.pc # "scan", NEW s \in Slot, rhiv[s] = f, f # NoFd
      PROVE  rInfo[f].hiv = s /\ rInfo[f].cflag # -2
  <2>1. \A w \in Worker : AtWork(w) => running[w] # f
    BY <1>3 DEF KeptApart
  <2>2. \A w \in Worker : InLogin(w) => rhiv[wk[w].index] # f
    BY <1>3 DEF KeptApart
  <2>3. ~ \E w \in Worker : wk[w].pc = "hiv" /\ running[w] = f
    BY <2>1 DEF AtWork
  <2>4. ~ \E w \in Worker : wk[w].pc \in {"old", "tflag", "rhiv"} /\ wk[w].index = s
    BY <1>3, <2>2 DEF InLogin
  <2> QED
    BY <1>3, <2>3, <2>4 DEF TablesInv, HandleInv
<1>12. mg.pc # "scan" => f \in Fd /\ f \in RFd /\ f # NoFd /\ \A w \in Worker : AtWork(w) => running[w] # f
  BY FdAssumption DEF KeptApart, TypeInv, MgType, RFd, NoFd
<1>4. ASSUME NEW g \in Fd, VisitRegistered(g) \/ VisitNew(g) PROVE TablesInv'
  <2>1. /\ UNCHANGED <<sock, rInfo, rhiv, R_CON_NUM>> /\ mg.pc = "scan"
        /\ mg'.fd = g /\ g # NoFd
        /\ \/ mg'.pc = "close" /\ rInfo[g].tfd # NoFd /\ rInfo[g].tflag # NoFd
           \/ mg'.pc = "closeNew" /\ rInfo[g].tfd # NoFd /\ rInfo[g].tflag = NoFd
    BY <1>4, FdAssumption
       DEF VisitRegistered, VisitNew, Registered, NewClient, serverVars, TablesInv, EntryInv, NoFd
  <2>2. MgInv'
    BY <2>1 DEF MgInv
  <2>3. WatchInv' /\ EntryInv' /\ HandleInv' /\ CountInv'
    BY <1>1, <2>1 DEF TablesInv, WatchInv, EntryInv, HandleInv, CountInv, RegisteredFds, Closing
  <2>4. WorkInv'
    BY <1>11, <2>1
  <2> QED
    BY <2>2, <2>3, <2>4 DEF TablesInv
<1>5. CASE ManagerCloses
  <2>1. /\ UNCHANGED <<rInfo, rhiv, R_CON_NUM>> /\ f \in Fd /\ mg'.fd = f
        /\ mg.pc \in {"close", "closeNew"}
        /\ mg'.pc = IF mg.pc = "close" THEN "unlink" ELSE "clearNew"
        /\ sock' = [g \in Fd |-> IF g = rInfo[f].tfd THEN Closed ELSE sock[g]]
    BY <1>5 DEF ManagerCloses, serverVars, TypeInv, MgType
  <2>2. rInfo[f].tfd = f /\ (rInfo[f].tflag = NoFd <=> mg.pc = "closeNew")
    BY <2>1 DEF TablesInv, MgInv, TypeInv, InfoType
  <2>3. \A g \in Fd : /\ sock'[g].open <=> sock[g].open /\ g # f
                      /\ ~Closing(g) /\ (Closing(g)' <=> g = f)
    BY <2>1, <2>2 DEF Closed, Closing
  <2>7. f # NoFd
    BY <2>1, FdAssumption DEF NoFd
  <2>8. ~Opening(f)
    BY <2>1, <2>2, <2>7 DEF TablesInv, WatchInv
  <2>4. WatchInv'
    BY <1>1, <2>1, <2>2, <2>3, <2>8 DEF TablesInv, WatchInv
  <2>9. WorkInv'
    <3>1. \A w \in Worker : AtWork(w) => running[w] \in Fd /\ running[w] # f
      BY <1>2, <1>12, <2>1
    <3>2. \A w \in Worker : AtWork(w) => sock'[running[w]].open = sock[running[w]].open
      BY <2>1, <2>2, <3>1
    <3> QED
      BY <1>11, <2>1, <3>2
  <2>5. MgInv'
    BY <2>1, <2>2 DEF TablesInv, MgInv
  <2>6. EntryInv' /\ HandleInv' /\ CountInv'
    BY <1>1, <2>1 DEF TablesInv, EntryInv, HandleInv, CountInv, RegisteredFds
  <2> QED
    BY <2>4, <2>5, <2>6, <2>9 DEF TablesInv
<1>6. CASE Unlink
  <2>1. /\ UNCHANGED <<sock, rInfo, R_CON_NUM>> /\ f \in Fd /\ mg'.fd = f
        /\ mg.pc = "unlink" /\ mg'.pc = "clear"
        /\ rhiv' = IF rInfo[f].cflag # -2 THEN [rhiv EXCEPT ![rInfo[f].hiv] = NoFd] ELSE rhiv
    BY <1>6 DEF Unlink, TypeInv, MgType
  <2>2. rInfo[f].tfd # NoFd /\ rInfo[f].tflag # NoFd
    BY <2>1 DEF TablesInv, MgInv
  <2>3. rInfo[f].hiv \in Slot
    BY <2>1 DEF TypeInv, InfoType, Entry, RFd
  <2>4. \A s \in Slot : /\ rhiv'[s] # f
                        /\ rhiv'[s] # NoFd => rhiv'[s] = rhiv[s]
    <3>1. f # NoFd
      BY <2>1, FdAssumption DEF NoFd
    <3>2. \A s \in Slot : rhiv[s] = f => rInfo[f].hiv = s /\ rInfo[f].cflag # -2
      BY <1>3, <2>1, <3>1
    <3> HIDE DEF f
    <3> QED
      BY <2>1, <2>3, <3>1, <3>2 DEF TypeInv, TableType
  <2>5. MgInv'
    BY <2>1, <2>2, <2>4 DEF MgInv
  <2>6. WatchInv' /\ EntryInv' /\ CountInv'
    BY <1>1, <2>1 DEF TablesInv, WatchInv, EntryInv, CountInv, RegisteredFds, Closing
  <2>7. HandleInv'
    BY <1>1, <2>1, <2>4 DEF TablesInv, HandleInv
  <2>8. WorkInv'
    BY <1>11, <2>1, <2>4
  <2> QED
    BY <2>5, <2>6, <2>7, <2>8 DEF TablesInv
<1>7. CASE Clear
  <2>1. /\ UNCHANGED <<sock, rhiv>> /\ f \in Fd /\ f \in RFd /\ mg'.pc = "scan" /\ mg.pc = "clear"
        /\ R_CON_NUM' = R_CON_NUM - 1
        /\ rInfo' = [rInfo EXCEPT ![f] = [NoInfo EXCEPT !.age = rInfo[f].age]]
    BY <1>7 DEF Clear, TypeInv, MgType, RFd
  <2>2. rInfo[f].tflag # NoFd /\ \A s \in Slot : rhiv[s] # f
    BY <2>1 DEF TablesInv, MgInv
  <2>9. f # NoFd
    BY <2>1, FdAssumption DEF NoFd
  <2>10. \A g \in Fd : ~Closing(g)' /\ (Closing(g) <=> g = f)
    BY <2>1 DEF Closing
  <2>11. \A w \in Worker : AtWork(w) => running[w] \in RFd /\ running[w] # f
    BY <1>2, <1>12, <2>1
  <2>12. ~sock[f].open /\ ~Opening(f)
    <3>1. ~sock[f].open
      BY <2>1, <2>10 DEF KeptApart
    <3> QED
      BY <2>1, <3>1 DEF TablesInv, WatchInv
  <2> HIDE DEF f
  <2>3. \A g \in RFd :
          IF g = f THEN rInfo'[g].tfd = NoFd /\ rInfo'[g].tflag = NoFd /\ rInfo'[g].cflag = 0
                   ELSE rInfo'[g] = rInfo[g]
    BY <2>1 DEF TypeInv, InfoType, NoInfo
  <2>4. WatchInv'
    BY <1>1, <2>1, <2>3, <2>9, <2>10, <2>12 DEF TablesInv, WatchInv, RFd
  <2>8. WorkInv'
    BY <1>11, <2>1, <2>3, <2>11
  <2>5. EntryInv' /\ MgInv'
    BY <2>1, <2>3, <2>9 DEF TablesInv, EntryInv, MgInv, RFd
  <2>6. HandleInv'
    <3>1. \A s \in Slot : rhiv[s] \in RFd
      BY DEF TypeInv, TableType
    <3> QED
      BY <1>1, <2>1, <2>2, <2>3, <3>1 DEF TablesInv, HandleInv
  <2>7. CountInv'
    <3>1. RegisteredFds' = RegisteredFds \ {f} /\ f \in RegisteredFds /\ RegisteredFds \subseteq Fd
      BY <2>1, <2>2, <2>3 DEF RegisteredFds, RFd
    <3>2. Cardinality(RegisteredFds') = Cardinality(RegisteredFds) - 1
      BY <3>1, FS_RemoveElement, FS_Subset, FdAssumption
    <3> QED
      BY <1>1, <2>1, <3>2 DEF TablesInv, CountInv, TypeInv, TableType
  <2> QED
    BY <2>4, <2>5, <2>6, <2>7, <2>8 DEF TablesInv
<1>8. CASE ClearNew
  <2>1. /\ UNCHANGED <<sock, rhiv, R_CON_NUM>> /\ f \in Fd /\ f \in RFd
        /\ mg'.pc = "scan" /\ mg.pc = "clearNew"
        /\ rInfo' = [rInfo EXCEPT ![f].tfd = NoFd, ![f].tflag = NoFd]
    BY <1>8 DEF ClearNew, TypeInv, MgType, RFd
  <2>2. rInfo[f].tflag = NoFd
    BY <2>1 DEF TablesInv, MgInv
  <2>9. f # NoFd
    BY <2>1, FdAssumption DEF NoFd
  <2>10. \A g \in Fd : ~Closing(g)' /\ (Closing(g) <=> g = f)
    BY <2>1 DEF Closing
  <2>11. \A w \in Worker : AtWork(w) => running[w] \in RFd /\ running[w] # f
    BY <1>2, <1>12, <2>1
  <2>12. ~sock[f].open /\ ~Opening(f)
    <3>1. ~sock[f].open
      BY <2>1, <2>10 DEF KeptApart
    <3> QED
      BY <2>1, <3>1 DEF TablesInv, WatchInv
  <2> HIDE DEF f
  <2>3. \A g \in RFd :
          IF g = f THEN rInfo'[g].tfd = NoFd /\ rInfo'[g].tflag = NoFd /\ rInfo'[g].cflag = rInfo[g].cflag
                   ELSE rInfo'[g] = rInfo[g]
    BY <2>1 DEF TypeInv, InfoType, Entry
  <2>8. rInfo[f].cflag # -2
    BY <2>1, <2>2 DEF TablesInv, EntryInv
  <2>14. UNCHANGED <<sock, rhiv>> /\ mg'.pc = "scan" /\ f \in RFd
    BY <2>1
  <2>4. WatchInv'
    BY <1>1, <2>3, <2>9, <2>10, <2>12, <2>14 DEF TablesInv, WatchInv, RFd
  <2>13. WorkInv'
    BY <1>11, <2>1, <2>3, <2>11
  <2>5. EntryInv' /\ MgInv'
    BY <2>1, <2>3, <2>8, <2>9 DEF TablesInv, EntryInv, MgInv, RFd
  <2>6. HandleInv'
    <3>1. \A s \in Slot : rhiv[s] \in RFd /\ (rhiv[s] # NoFd => rhiv[s] # f)
      BY <2>2 DEF TypeInv, TableType, TablesInv, HandleInv
    <3> QED
      BY <1>1, <2>3, <2>8, <2>14, <3>1 DEF TablesInv, HandleInv
  <2>7. CountInv'
    <3>1. RegisteredFds' = RegisteredFds
      BY <2>2, <2>3 DEF RegisteredFds, RFd
    <3> QED
      BY <1>1, <2>1, <3>1 DEF TablesInv, CountInv
  <2> QED
    BY <2>4, <2>5, <2>6, <2>7, <2>13 DEF TablesInv
<1> QED
  BY <1>4, <1>5, <1>6, <1>7, <1>8 DEF ManagerStep

LEMMA TurnInit == Init => TurnInv /\ KeptApart
<1> SUFFICES ASSUME Init PROVE TurnInv /\ KeptApart
  OBVIOUS
<1>1. TypeInv
  BY TypeInit
<1>2. /\ ep.pc = "wait" /\ ep.events = {} /\ mg.pc = "scan" /\ http.pc = "idle"
      /\ \A w \in Worker : wk[w].pc = "idle"
      /\ \A f \in Fd : ~sock[f].open /\ ~sock[f].err
      /\ \A f \in RFd : rInfo[f].tfd = NoFd /\ rInfo[f].tflag = NoFd /\ rInfo[f].cflag = 0
      /\ \A s \in Slot : rhiv[s] = NoFd
      /\ R_CON_NUM = 0
  BY DEF Init, Closed, NoInfo
<1>3. NoErrors
  BY <1>2 DEF NoErrors
<1>4. WatchInv /\ EntryInv /\ MgInv /\ WorkInv /\ HandleInv
  BY <1>2, FdAssumption DEF WatchInv, EntryInv, MgInv, WorkInv, HandleInv, Opening, Closing, RFd, NoFd
<1>5. CountInv
  <2>1. RegisteredFds = {} /\ ~Uncounted
    BY <1>2 DEF RegisteredFds, Uncounted, RFd
  <2> QED
    BY <1>2, <2>1, FS_EmptySet DEF CountInv
<1>6. KeptApart
  BY <1>2 DEF KeptApart, InLogin, AtWork, Closing
<1> QED
  BY <1>1, <1>3, <1>4, <1>5, <1>6 DEF TurnInv, TablesInv

LEMMA TurnNext ==
  ASSUME ~ErrEvents, TurnInv, KeptApart, [Next /\ KeptApart']_vars
  PROVE  TurnInv' /\ KeptApart'
<1>9. KeptApart' /\ [Next]_vars
  <2>1. UNCHANGED vars => KeptApart'
    BY DEF vars, KeptApart, InLogin, AtWork, Opening, Closing
  <2> QED
    BY <2>1
<1> SUFFICES TurnInv'
  BY <1>9
<1>1. TypeInv' /\ NoErrors'
  BY <1>9, TypeNext, NoErrorsNext DEF TurnInv
<1>2. CASE Environment \/ Tick
  BY <1>1, <1>2, <1>9, EnvironmentKeeps DEF TurnInv
<1>3. CASE EpollStep
  BY <1>1, <1>3, <1>9, EpollKeeps DEF TurnInv
<1>4. ASSUME NEW w \in Worker, WorkerStep(w) PROVE TurnInv'
  BY <1>1, <1>4, <1>9, WorkerPlainKeeps, LoginAgainKeeps, SetTflagKeeps, SetRhivKeeps, SetHivKeeps,
     CountRobotKeeps DEF TurnInv
<1>5. CASE ManagerStep
  BY <1>1, <1>5, <1>9, ManagerKeeps DEF TurnInv
<1>6. CASE HttpStep \/ UNCHANGED vars
  <2>1. TablesStay /\ UNCHANGED <<wk, running>>
    BY <1>6, StepsLeave DEF TablesStay, Opening, vars
  <2>2. TablesInv'
    BY <1>1, <2>1, TablesStayKeeps, WorkStays DEF TurnInv, TablesInv
  <2> QED
    BY <1>1, <2>2 DEF TurnInv
<1> QED
  BY <1>2, <1>3, <1>4, <1>5, <1>6, <1>9 DEF Next

LEMMA TurnAlways ==
  ASSUME ~ErrEvents
  PROVE  ApartSpec => [](TurnInv /\ KeptApart)
<1>1. TurnInv /\ KeptApart /\ [Next /\ KeptApart']_vars => (TurnInv /\ KeptApart)'
  BY TurnNext
<1> QED
  BY <1>1, TurnInit, PTL DEF ApartSpec

LEMMA WhenSettled ==
  ASSUME TurnInv, Settled
  PROVE  /\ \A f \in Fd : ~Opening(f) /\ ~Closing(f)
         /\ \A w \in Worker : ~InLogin(w)
BY DEF Settled, Closing

\* Every connection is in the table RClientManage looks through, and every entry
\* is an open connection (socket.c:79-92, cm.c:24-59).
THEOREM ConnectionsAreWatched ==
  ASSUME ~ErrEvents
  PROVE  ApartSpec => []OpenIsWatched
<1>1. TurnInv => OpenIsWatched
  BY WhenSettled DEF OpenIsWatched, TurnInv, TablesInv, WatchInv
<1> QED
  BY <1>1, TurnAlways, PTL

\* What the HTTP thread takes for online is an open connection registered for
\* that slot (socket.c:174, cm.c:34-41, robot.c:37, 43).
THEOREM HandlesAreOpen ==
  ASSUME ~ErrEvents
  PROVE  ApartSpec => []OnlineMeansOpen
<1>1. TurnInv => OnlineMeansOpen
  <2> SUFFICES ASSUME TurnInv, Settled, NEW s \in Slot, rhiv[s] # NoFd
               PROVE  /\ sock[rhiv[s]].open
                      /\ Registered(rhiv[s])
                      /\ rInfo[rhiv[s]].hiv = s
    BY DEF OnlineMeansOpen
  <2>1. rhiv[s] \in Fd
    BY DEF TurnInv, TypeInv, TableType, RFd
  <2>2. rInfo[rhiv[s]].tflag # NoFd /\ rInfo[rhiv[s]].hiv = s
    BY WhenSettled DEF TurnInv, TablesInv, HandleInv, InLogin
  <2>3. rInfo[rhiv[s]].tfd = rhiv[s]
    BY <2>1, <2>2 DEF TurnInv, TablesInv, EntryInv, TypeInv, InfoType
  <2> QED
    BY <2>1, <2>2, <2>3, WhenSettled DEF TurnInv, TablesInv, WatchInv, EntryInv, Registered
<1> QED
  BY <1>1, TurnAlways, PTL

\* The printed number of robots is the number of registered entries
\* (robot.c:29, 46, cm.c:45).
THEOREM RobotsAreCounted ==
  ASSUME ~ErrEvents
  PROVE  ApartSpec => []ConnectionCount
<1>1. TurnInv => ConnectionCount
  BY WhenSettled DEF ConnectionCount, TurnInv, TablesInv, CountInv, Uncounted, InLogin, RegisteredFds
<1> QED
  BY <1>1, TurnAlways, PTL

-----------------------------------------------------------------------------
(* Whose connection a handle is, as long as no robot was given slot 0, which  *)
(* the code also reads as "not found".                                       *)

ZeroFree == RidHash[0] = NoId

\* Every serial number is found.
KeysInv == AllFound(RidHash)

\* A robot registers with its own serial number.
Says(f, packs) == \A i \in 1..Len(packs) : packs[i] \in {"heart", sock[f].owner}
SaidInv == \A f \in Fd : Says(f, sock[f].inbox)

\* From the search on a thread holds the serial number of its connection, and
\* from the login on the slot of that number.
Registering(w) ==
  /\ wk[w].pc \notin {"idle", "read", "reset"} => Says(running[w], wk[w].packs)
  /\ wk[w].pc \in {"login", "old", "tflag", "rhiv", "hiv", "count"} =>
       wk[w].robot = sock[running[w]].owner
  /\ wk[w].pc = "login" => wk[w].index = GetHashTablePos(wk[w].robot)
  /\ wk[w].pc \in {"old", "tflag", "rhiv", "hiv", "count"} => RidHash[wk[w].index] = wk[w].robot
LoginInv == \A w \in Worker : Registering(w)

\* The handle in a slot is a connection of the robot that has the slot.
OwnerInv ==
  \A s \in Slot : rhiv[s] # NoFd =>
    /\ RidHash[s] # NoId
    /\ sock[rhiv[s]].open => sock[rhiv[s]].owner = RidHash[s]

HttpInv ==
  http.pc = "write" =>
    http.index \in Slot /\ http.robot \in Id /\ RidHash[http.index] = http.robot

RobotInv == KeysInv /\ SaidInv /\ LoginInv /\ OwnerInv /\ HttpInv

LEMMA RobotInit == Init => RobotInv
<1> SUFFICES ASSUME Init PROVE RobotInv
  OBVIOUS
<1>1. /\ \A s \in Slot : rhiv[s] = NoFd /\ RidHash[s] = NoId
      /\ \A w \in Worker : wk[w].pc = "idle"
      /\ \A f \in Fd : sock[f].inbox = <<>>
      /\ http.pc = "idle"
  BY DEF Init, Closed
<1>2. SaidInv
  BY <1>1 DEF SaidInv, Says
<1> QED
  BY <1>1, <1>2, SlotAssumption DEF RobotInv, KeysInv, LoginInv, Registering, OwnerInv, HttpInv, AllFound

\* What is in a socket is what its robot said, whatever happens to it.
LEMMA SaidNext ==
  ASSUME TypeInv, SaidInv, [Next]_vars
  PROVE  SaidInv'
<1> USE DEF TypeInv, SockType, SaidInv, Says
<1>1. CASE UNCHANGED sock
  BY <1>1
<1>2. ASSUME NEW g \in Fd, NEW m \in Packet, Send(g, m) PROVE SaidInv'
  <2>1. /\ sock' = [sock EXCEPT ![g] = [sock[g] EXCEPT !.inbox = Append(sock[g].inbox, m), !.edge = TRUE]]
        /\ m \in {"heart", sock[g].owner}
    BY <1>2 DEF Send
  <2> DEFINE inbox == sock[g].inbox
  <2>2. /\ inbox \in Seq(Packet)
        /\ Len(Append(inbox, m)) = Len(inbox) + 1
        /\ \A i \in 1..Len(inbox) : Append(inbox, m)[i] = inbox[i]
        /\ Append(inbox, m)[Len(inbox) + 1] = m
    BY AppendProperties
  <2>3. \A i \in 1..Len(inbox)+1 : Append(inbox, m)[i] \in {"heart", sock[g].owner}
    BY <2>1, <2>2, LenProperties
  <2> QED
    BY <2>1, <2>2, <2>3
<1>3. CASE EpollWait \/ \E g \in Fd : PeerCloses(g) \/ SocketError(g)
  <2>1. ASSUME NEW f \in Fd PROVE sock'[f].inbox = sock[f].inbox /\ sock'[f].owner = sock[f].owner
    <3>1. CASE EpollWait
      BY <3>1 DEF EpollWait
    <3>2. ASSUME NEW g \in Fd, PeerCloses(g)
          PROVE  sock'[f].inbox = sock[f].inbox /\ sock'[f].owner = sock[f].owner
      BY <3>2 DEF PeerCloses
    <3>3. ASSUME NEW g \in Fd, SocketError(g)
          PROVE  sock'[f].inbox = sock[f].inbox /\ sock'[f].owner = sock[f].owner
      BY <3>3 DEF SocketError
    <3> QED
      BY <1>3, <3>1, <3>2, <3>3
  <2> QED
    BY <2>1
<1>4. CASE \E e \in ep.events : HandleOther(e)
  BY <1>4 DEF HandleOther, Closed
<1>5. CASE Accept
  BY <1>5 DEF Accept, Closed
<1>6. CASE ManagerCloses
  BY <1>6 DEF ManagerCloses, Closed
<1>7. ASSUME NEW w \in Worker, ReadData(w) PROVE SaidInv'
  <2> DEFINE f == running[w]
             inbox == sock[f].inbox
             n == IF Len(inbox) < ReadSize THEN Len(inbox) ELSE ReadSize
  <2>1. f \in Fd /\ sock' = [sock EXCEPT ![f].inbox = SubSeq(inbox, n + 1, Len(inbox))]
    BY <1>7 DEF ReadData, WkType
  <2>2. inbox \in Seq(Packet) /\ Len(inbox) \in Nat /\ n \in 0..Len(inbox)
    BY <2>1, LenProperties, CapacityAssumption
  <2> HIDE DEF n
  <2>3. /\ Len(SubSeq(inbox, n + 1, Len(inbox))) = Len(inbox) - n
        /\ \A i \in 1..Len(inbox) - n : SubSeq(inbox, n + 1, Len(inbox))[i] = inbox[n + i]
    BY <2>2, SubSeqProperties
  <2> QED
    BY SMTT(30), <2>1, <2>2, <2>3
<1>8. ASSUME NEW w \in Worker, WorkerStep(w), ~ReadData(w) PROVE UNCHANGED sock
  BY <1>8 DEF WorkerStep, StartJob, ReadEof, ReadNothing, ResetAfterEof,
     PacketsEnd, RefreshPacket, RegisterPacket, NewRobot, FirstLogin, LoginAgain, OldLogin,
     SetTflag, SetRhiv, SetHiv, CountRobot
<1>9. ASSUME Next, ~UNCHANGED sock
       PROVE  \/ \E g \in Fd : PeerCloses(g) \/ SocketError(g) \/ \E m \in Packet : Send(g, m)
              \/ EpollWait \/ Accept \/ \E e \in ep.events : HandleOther(e)
              \/ ManagerCloses \/ \E w \in Worker : WorkerStep(w)
  BY <1>9, StepsLeave DEF Next, Environment, Connect, Tick, EpollStep, HandleListen, HandleRdhup, HandleIn,
     AcceptEnds, Stamp, Enlist, ManagerStep, VisitRegistered, VisitNew, Unlink, Clear, ClearNew
<1> QED
  BY <1>1, <1>2, <1>3, <1>4, <1>5, <1>6, <1>7, <1>8, <1>9 DEF vars

\* The connection a thread works on stays as it is.
LEMMA RegisteringStays ==
  ASSUME TypeInv, LoginInv, UNCHANGED <<wk, running, RidHash>>,
         \A w \in Worker : AtWork(w) => sock'[running[w]].owner = sock[running[w]].owner
  PROVE  LoginInv'
<1> SUFFICES ASSUME NEW w \in Worker PROVE Registering(w)'
  BY DEF LoginInv
<1>1. Registering(w)
  BY DEF LoginInv
<1>2. CASE AtWork(w)
  BY <1>1, <1>2 DEF Registering, Says, GetHashTablePos
<1>3. CASE ~AtWork(w)
  BY <1>3 DEF AtWork, Registering
<1> QED
  BY <1>2, <1>3

\* The environment opens and closes no connection, and no handle, serial number
\* or thread changes with it.
LEMMA RobotEnvironment ==
  ASSUME ~ErrEvents, TurnInv, KeptApart, KeptApart', RobotInv, SaidInv', Environment \/ Tick
  PROVE  RobotInv'
<1> USE DEF RobotInv
<1>1. \A f \in Fd : sock'[f].open = sock[f].open /\ sock'[f].owner = sock[f].owner
  BY SocketsStay DEF TurnInv
<1>2. UNCHANGED <<wk, http, rhiv, RidHash, running>>
  BY StepsLeave
<1>3. LoginInv'
  <2>1. \A w \in Worker : AtWork(w) => running[w] \in Fd
    BY DEF AtWork, TurnInv, TypeInv, WkType
  <2> QED
    BY <1>1, <1>2, <2>1, RegisteringStays DEF TurnInv
<1>4. OwnerInv'
  BY <1>1, <1>2 DEF OwnerInv, TurnInv, TypeInv, TableType, RFd
<1> QED
  BY <1>2, <1>3, <1>4 DEF KeysInv, HttpInv

LEMMA RobotEpoll ==
  ASSUME ~ErrEvents, TurnInv, KeptApart, KeptApart', RobotInv, SaidInv', EpollStep
  PROVE  RobotInv'
<1> USE DEF RobotInv
<1>1. UNCHANGED <<mg, wk, http, rhiv, RidHash, running>>
  BY StepsLeave
<1>7. \A g \in Fd : sock[g].open => sock'[g].owner = sock[g].owner
  <2>1. CASE EpollWait
    BY <2>1, SocketsStay DEF TurnInv
  <2>2. CASE Accept
    BY <2>2 DEF Accept, FreeFd, TurnInv, TypeInv, SockType
  <2>3. ASSUME NEW e \in ep.events PROVE ~HandleOther(e)
    BY <2>3 DEF HandleOther, TurnInv, NoErrors
  <2>4. ~EpollWait /\ ~Accept => UNCHANGED sock
    BY <2>3 DEF EpollStep, HandleListen, HandleRdhup, HandleIn, AcceptEnds, Stamp, Enlist
  <2> QED
    BY <2>1, <2>2, <2>4
<1>2. LoginInv'
  <2>1. \A w \in Worker : AtWork(w) => running[w] \in Fd /\ sock[running[w]].open
    BY DEF AtWork, TurnInv, TypeInv, WkType, TablesInv, WorkInv
  <2> QED
    BY <1>1, <1>7, <2>1, RegisteringStays DEF TurnInv
\* The descriptor of a new connection is in no slot.
<1>3. \A s \in Slot : rhiv[s] # NoFd =>
        /\ rhiv[s] \in Fd
        /\ sock'[rhiv[s]].open => /\ sock[rhiv[s]].open
                                 /\ sock'[rhiv[s]].owner = sock[rhiv[s]].owner
  <2> SUFFICES ASSUME NEW s \in Slot, rhiv[s] # NoFd
               PROVE  /\ rhiv[s] \in Fd
                      /\ sock'[rhiv[s]].open => /\ sock[rhiv[s]].open
                                               /\ sock'[rhiv[s]].owner = sock[rhiv[s]].owner
    OBVIOUS
  <2> DEFINE h == rhiv[s]
  <2>1. h \in Fd
    BY DEF TurnInv, TypeInv, TableType, RFd
  <2>2. rInfo[h].tfd = h
    <3>1. rInfo[h].tflag # NoFd
      BY DEF TurnInv, TablesInv, HandleInv
    <3> QED
      BY <2>1, <3>1 DEF TurnInv, TypeInv, InfoType, TablesInv, EntryInv
  <2>3. sock[h].open \/ Closing(h)
    BY <2>1, <2>2 DEF TurnInv, TablesInv, WatchInv
  <2>4. Closing(h) => ~sock'[h].open
    <3>1. Closing(h) => Closing(h)'
      BY <1>1 DEF Closing
    <3>2. Closing(h)' => ~sock'[h].open
      BY <1>1, <2>1 DEF KeptApart, Closing
    <3> QED
      BY <3>1, <3>2
  <2> HIDE DEF h
  <2>5. sock'[h].open => sock[h].open /\ sock'[h].owner = sock[h].owner
    BY <1>7, <2>1, <2>3, <2>4
  <2> QED
    BY <2>1, <2>5 DEF h
<1>4. OwnerInv'
  BY <1>1, <1>3 DEF OwnerInv
<1> QED
  BY <1>1, <1>2, <1>4 DEF KeysInv, HttpInv

LEMMA RobotManager ==
  ASSUME ~ErrEvents, TurnInv, KeptApart, KeptApart', RobotInv, SaidInv', ManagerStep
  PROVE  RobotInv'
<1> USE DEF RobotInv
<1>1. UNCHANGED <<wk, http, RidHash, running>>
  BY StepsLeave
<1>2. LoginInv'
  <2>1. \A w \in Worker : AtWork(w) => running[w] \in Fd
    BY DEF AtWork, TurnInv, TypeInv, WkType
  <2>2. ASSUME ManagerCloses, NEW w \in Worker, AtWork(w)
        PROVE  sock'[running[w]] = sock[running[w]]
    <3>1. running[w] # mg.fd /\ mg.fd \in Fd /\ rInfo[mg.fd].tfd \in {NoFd, mg.fd}
      BY <2>2 DEF ManagerCloses, KeptApart, TurnInv, TypeInv, MgType, InfoType
    <3>2. running[w] # NoFd
      BY <2>1, <2>2, FdAssumption DEF NoFd
    <3> QED
      BY <2>1, <2>2, <3>1, <3>2 DEF ManagerCloses
  <2>3. ~ManagerCloses => UNCHANGED sock
    BY DEF ManagerStep, VisitRegistered, VisitNew, Unlink, Clear, ClearNew
  <2> QED
    BY <1>1, <2>2, <2>3, RegisteringStays DEF TurnInv
<1>3. \A f \in Fd : sock'[f].open => sock'[f] = sock[f]
  BY DEF ManagerStep, VisitRegistered, VisitNew, ManagerCloses, Unlink, Clear, ClearNew, Closed
<1>4. \A s \in Slot : rhiv'[s] # NoFd => rhiv'[s] = rhiv[s] /\ rhiv[s] \in Fd
  BY DEF ManagerStep, VisitRegistered, VisitNew, ManagerCloses, Unlink, Clear, ClearNew, serverVars,
     TurnInv, TypeInv, TableType, RFd
<1>5. KeysInv' /\ HttpInv'
  BY <1>1 DEF KeysInv, HttpInv
<1>6. OwnerInv'
  BY <1>1, <1>3, <1>4 DEF OwnerInv
<1> QED
  BY <1>2, <1>5, <1>6

\* A request is written to the handle of the serial number it is for.
LEMMA RobotHttp ==
  ASSUME TurnInv, RobotInv, SaidInv', ZeroFree, HttpStep
  PROVE  RobotInv'
<1> USE DEF RobotInv
<1>1. UNCHANGED <<sock, wk, running, rhiv, RidHash>>
  BY StepsLeave
<1>2. KeysInv' /\ LoginInv' /\ OwnerInv'
  BY <1>1 DEF KeysInv, LoginInv, Registering, OwnerInv, Says, GetHashTablePos
<1>3. HttpInv'
  <2>1. CASE WriteCommand
    BY <2>1 DEF WriteCommand, HttpInv
  <2>2. ASSUME NEW r \in Id, Request(r) PROVE HttpInv'
    <3>1. Search(RidHash, r) # 0
      BY <2>2, SlotAssumption DEF Request, GetHashTablePos, OwnerInv, ZeroFree
    <3>2. Search(RidHash, r) \in Slot /\ RidHash[Search(RidHash, r)] = r
      BY <3>1, SearchFinds
    <3> QED
      BY <1>1, <2>2, <3>2 DEF Request, GetHashTablePos, HttpInv
  <2> QED
    BY <2>1, <2>2 DEF HttpStep
<1> QED
  BY <1>2, <1>3

LEMMA RobotWorker ==
  ASSUME ~ErrEvents, TurnInv, KeptApart, RobotInv, SaidInv', ZeroFree, ZeroFree',
         NEW w \in Worker, WorkerStep(w)
  PROVE  RobotInv'
<1> DEFINE f == running[w]
           r == wk[w].robot
           i == wk[w].index
<1>1. /\ UNCHANGED http
      /\ \A v \in Worker \ {w} : wk'[v] = wk[v] /\ running'[v] = running[v]
      /\ InLogin(w) => \A v \in Worker \ {w} : ~InLogin(v)
  BY WorkerTurn, StepsLeave
<1>2. \A g \in Fd : sock'[g].open = sock[g].open /\ sock'[g].owner = sock[g].owner
  BY SocketsStay DEF TurnInv
<1>3. /\ AllFound(RidHash) /\ RidHash[0] = NoId
      /\ rhiv \in [Slot -> RFd] /\ RidHash \in Table
      /\ i \in Slot
      /\ wk[w].pc # "idle" => f \in Fd
      /\ wk[w].pc = "login" => r \in Id
  BY DEF ZeroFree, RobotInv, KeysInv, TurnInv, TypeInv, TableType, WkType, Table
<1>4. /\ wk[w].pc \notin {"idle", "read", "reset"} => Says(f, wk[w].packs)
      /\ wk[w].pc \in {"login", "old", "tflag", "rhiv", "hiv", "count"} => r = sock[f].owner
      /\ wk[w].pc = "login" => i = Search(RidHash, r)
      /\ wk[w].pc \in {"old", "tflag", "rhiv", "hiv", "count"} => RidHash[i] = r
  BY DEF RobotInv, LoginInv, Registering, GetHashTablePos
\* The other threads hold no slot while this one stores a serial number, and
\* the slot of a request is not the one it is stored in.
<1>5. ASSUME KeysInv', OwnerInv', Registering(w)',
             \/ UNCHANGED RidHash
             \/ InLogin(w) /\ \A s \in Slot : RidHash[s] # NoId => RidHash'[s] = RidHash[s]
      PROVE  RobotInv'
  <2>1. ASSUME NEW v \in Worker \ {w} PROVE Registering(v)'
    <3>1. Registering(v) /\ wk'[v] = wk[v] /\ running'[v] = running[v]
      BY <1>1 DEF RobotInv, LoginInv
    <3>2. wk[v].pc # "idle" => sock'[running[v]].owner = sock[running[v]].owner
      BY <1>2 DEF TurnInv, TypeInv, WkType
    <3>3. CASE UNCHANGED RidHash
      BY <3>1, <3>2, <3>3 DEF Registering, Says, GetHashTablePos
    <3>4. CASE InLogin(w)
      <4>1. ~InLogin(v)
        BY <1>1, <3>4
      <4> QED
        BY <3>1, <3>2, <4>1 DEF Registering, Says, InLogin
    <3> QED
      BY <1>5, <3>3, <3>4
  <2>2. HttpInv'
    BY <1>1, <1>5, HomeAssumption DEF RobotInv, HttpInv
  <2> QED
    BY <1>5, <2>1, <2>2 DEF RobotInv, LoginInv
\* Most steps leave the two tables alone.
<1>6. ASSUME UNCHANGED <<rhiv, RidHash>> PROVE KeysInv' /\ OwnerInv'
  BY <1>2, <1>6 DEF RobotInv, KeysInv, OwnerInv, TurnInv, TypeInv, TableType, RFd
<1>7. CASE StartJob(w) \/ ReadEof(w) \/ ReadNothing(w) \/ ResetAfterEof(w) \/ PacketsEnd(w)
  <2>1. UNCHANGED <<rhiv, RidHash>> /\ wk'[w].pc \in {"idle", "read", "reset"}
    BY <1>7 DEF StartJob, ReadEof, ReadNothing, ResetAfterEof, PacketsEnd, JobEnds, serverVars,
       TurnInv, TypeInv, WkType
  <2> QED
    BY <1>5, <1>6, <2>1 DEF Registering
<1>8. CASE ReadData(w)
  <2> DEFINE inbox == sock[f].inbox
             n == IF Len(inbox) < ReadSize THEN Len(inbox) ELSE ReadSize
  <2>1. /\ UNCHANGED <<rhiv, RidHash, running>> /\ f \in Fd
        /\ wk'[w].pc = "parse" /\ wk'[w].packs = SubSeq(inbox, 1, n)
    BY <1>3, <1>8 DEF ReadData, serverVars, poolVars, TurnInv, TypeInv, WkType
  <2>2. inbox \in Seq(Packet) /\ Len(inbox) \in Nat /\ n \in 0..Len(inbox)
    BY <2>1, LenProperties, CapacityAssumption DEF TurnInv, TypeInv, SockType
  <2>3. \A j \in 1..Len(inbox) : inbox[j] \in {"heart", sock[f].owner} /\ inbox[j] \in Packet
    BY <2>1, <2>2, LenProperties DEF RobotInv, SaidInv, Says
  <2> HIDE DEF n, inbox
  <2>4. Len(SubSeq(inbox, 1, n)) = n /\ \A j \in 1..n : SubSeq(inbox, 1, n)[j] = inbox[j]
    BY <2>2, <2>3, SubSeqProperties
  <2>5. \A j \in 1..Len(wk'[w].packs) : wk'[w].packs[j] \in {"heart", sock'[f].owner}
    <3>1. \A j \in 1..n : SubSeq(inbox, 1, n)[j] \in {"heart", sock[f].owner}
      BY <2>2, <2>3, <2>4
    <3>2. sock'[f].owner = sock[f].owner
      BY <1>2, <2>1
    <3> QED
      BY <2>1, <2>4, <3>1, <3>2
  <2> QED
    BY <1>5, <1>6, <2>1, <2>5 DEF Registering, Says
<1>9. CASE RefreshPacket(w) \/ RegisterPacket(w)
  <2> DEFINE packs == wk[w].packs
  <2>1. /\ UNCHANGED <<rhiv, RidHash, running>> /\ f \in Fd
        /\ packs # <<>> /\ packs \in Seq(Packet) /\ Says(f, packs)
        /\ wk'[w].packs = Tail(packs)
        /\ \/ wk'[w].pc = "parse"
           \/ /\ wk'[w].pc = "login" /\ Head(packs) # "heart"
              /\ wk'[w].robot = Head(packs) /\ wk'[w].index = Search(RidHash, Head(packs))
    <3>1. CASE RefreshPacket(w)
      BY <1>3, <1>4, <3>1 DEF RefreshPacket, NextPacket, poolVars, TurnInv, TypeInv, WkType
    <3>2. CASE RegisterPacket(w)
      BY <1>3, <1>4, <3>2 DEF RegisterPacket, NextPacket, GetHashTablePos, serverVars, poolVars,
         TurnInv, TypeInv, WkType
    <3> QED
      BY <1>9, <3>1, <3>2
  <2> HIDE DEF packs
  <2>2. /\ Len(packs) \in Nat /\ Len(Tail(packs)) = Len(packs) - 1
        /\ \A j \in 1..Len(packs)-1 : Tail(packs)[j] = packs[j+1]
        /\ Len(packs) >= 1 /\ Head(packs) = packs[1]
    BY <2>1, HeadTailProperties, LenProperties, EmptySeq
  <2>3. /\ \A j \in 1..Len(Tail(packs)) : Tail(packs)[j] \in {"heart", sock'[f].owner}
        /\ Head(packs) \in {"heart", sock'[f].owner}
    BY <1>2, <2>1, <2>2 DEF Says
  <2> QED
    BY <1>5, <1>6, <2>1, <2>3 DEF Registering, Says, GetHashTablePos
\* A robot whose number is not stored gets a slot of its own, and not slot 0.
<1>10. CASE NewRobot(w)
  <2> DEFINE s == InsertSlot(RidHash, r)
  <2>1. /\ wk[w].pc = "login" /\ i = 0 /\ UNCHANGED <<rhiv, running, sock>>
        /\ RidHash' = Inserted(RidHash, r)
        /\ wk'[w].index = s /\ wk'[w].robot = r /\ wk'[w].packs = wk[w].packs /\ wk'[w].pc = "tflag"
    BY <1>10 DEF NewRobot, InsertPos, Inserted, poolVars, TurnInv, TypeInv, WkType
  <2>2. r \in Id /\ r = sock[f].owner /\ Says(f, wk[w].packs)
    BY <1>3, <1>4, <2>1
  <2>3. \A q \in Slot : RidHash[q] # r
    BY <1>3, <1>4, <2>1, <2>2, SearchStored, HomeAssumption
  <2>4. Room(RidHash) /\ s \in Slot /\ RidHash[s] = NoId
    <3>1. Room(RidHash)
      BY <1>3, SlotAssumption DEF Room
    <3>2. s \in FirstSlot(RidHash, r, {NoId})
      BY <1>3, <2>2, <3>1, FillsFirst
    <3>3. s \in Slot
      BY <2>2, SearchInTable
    <3> HIDE DEF s
    <3>4. RidHash[s] = NoId
      BY <3>2 DEF FirstSlot
    <3> QED
      BY <3>1, <3>3, <3>4
  <2>5. RidHash' = [RidHash EXCEPT ![s] = r]
    BY <2>1 DEF Inserted
  <2>6. AllFound(RidHash')
    BY <1>3, <2>1, <2>2, <2>3, <2>4, InsertKeepsAllFound
  <2> HIDE DEF s
  <2>7. RidHash'[s] = r
    BY <1>3, <2>4, <2>5 DEF Table
  <2>8. KeysInv'
    BY <2>6 DEF KeysInv, AllFound
  <2>9. OwnerInv'
    <3>1. \A q \in Slot : rhiv[q] # NoFd => RidHash'[q] = RidHash[q]
      BY <1>3, <2>4, <2>5 DEF RobotInv, OwnerInv, Table
    <3> QED
      BY <2>1, <3>1 DEF RobotInv, OwnerInv
  <2>10. Registering(w)'
    BY <2>1, <2>2, <2>7 DEF Registering, Says
  <2>11. InLogin(w) /\ \A q \in Slot : RidHash[q] # NoId => RidHash'[q] = RidHash[q]
    BY <1>3, <2>1, <2>4, <2>5 DEF InLogin, Table
  <2> QED
    BY <1>5, <2>8, <2>9, <2>10, <2>11
<1>11. CASE FirstLogin(w) \/ LoginAgain(w)
  <2>1. /\ wk[w].pc = "login" /\ i # 0 /\ UNCHANGED <<sock, rhiv, RidHash, running>>
        /\ wk'[w].index = i /\ wk'[w].robot = r /\ wk'[w].packs = wk[w].packs
        /\ wk'[w].pc \in {"old", "tflag"}
    BY <1>11 DEF FirstLogin, LoginAgain, serverVars, poolVars, TurnInv, TypeInv, WkType
  <2>2. RidHash[i] = r
    BY <1>3, <1>4, <2>1, SearchFinds
  <2>3. Registering(w)'
    BY <1>4, <2>1, <2>2 DEF Registering, Says
  <2> QED
    BY <1>5, <1>6, <2>1, <2>3
<1>12. CASE OldLogin(w) \/ SetTflag(w) \/ SetHiv(w) \/ CountRobot(w)
  <2>1. /\ wk[w].pc \in {"old", "tflag", "hiv", "count"} /\ UNCHANGED <<sock, rhiv, RidHash, running>>
        /\ wk'[w].packs = wk[w].packs
        /\ \/ wk'[w].pc = "parse"
           \/ wk'[w].index = i /\ wk'[w].robot = r /\ wk'[w].pc \in {"tflag", "rhiv", "count"}
    BY <1>12 DEF OldLogin, SetTflag, SetHiv, CountRobot, poolVars, TurnInv, TypeInv, WkType
  <2>2. Registering(w)'
    BY <1>4, <2>1 DEF Registering, Says
  <2> QED
    BY <1>5, <1>6, <2>1, <2>2
<1>13. CASE SetRhiv(w)
  <2>1. /\ wk[w].pc = "rhiv" /\ UNCHANGED <<sock, RidHash, running>>
        /\ rhiv' = [rhiv EXCEPT ![i] = f] /\ f \in Fd
        /\ wk'[w].index = i /\ wk'[w].robot = r /\ wk'[w].packs = wk[w].packs /\ wk'[w].pc = "hiv"
    BY <1>3, <1>13 DEF SetRhiv, poolVars, TurnInv, TypeInv, WkType
  <2>2. r = sock[f].owner /\ RidHash[i] = r /\ Says(f, wk[w].packs)
    BY <1>4, <2>1
  <2>3. r # NoId
    BY <2>1, <2>2, HomeAssumption DEF TurnInv, TablesInv, WorkInv, TypeInv, SockType
  <2>4. KeysInv'
    BY <1>3, <2>1 DEF KeysInv
  <2> HIDE DEF f, i
  <2>5. OwnerInv'
    BY <1>3, <2>1, <2>2, <2>3 DEF RobotInv, OwnerInv
  <2>6. Registering(w)'
    BY <2>1, <2>2 DEF Registering, Says, f, i
  <2> QED
    BY <1>5, <2>1, <2>4, <2>5, <2>6
<1> QED
  BY <1>7, <1>8, <1>9, <1>10, <1>11, <1>12, <1>13 DEF WorkerStep

LEMMA RobotNext ==
  ASSUME ~ErrEvents, TurnInv, KeptApart, KeptApart', RobotInv, ZeroFree, ZeroFree', [Next]_vars
  PROVE  RobotInv'
<1>1. SaidInv'
  BY SaidNext DEF TurnInv, RobotInv
<1>2. CASE UNCHANGED vars
  BY <1>2 DEF vars, RobotInv, KeysInv, SaidInv, LoginInv, Registering, Says, OwnerInv, HttpInv, GetHashTablePos
<1> QED
  BY <1>1, <1>2, RobotEnvironment, RobotEpoll, RobotManager, RobotHttp, RobotWorker DEF Next

\* As long as no robot was given slot 0, the handle that is read again for the
\* write is a connection of the robot the command is for, or closed, or empty
\* (socket.c:170-182).
THEOREM CommandsReachRobots ==
  ASSUME ~ErrEvents
  PROVE  ApartSpec /\ []ZeroFree => []CommandReachesRobot
<1>1. RobotInv => CommandReachesRobot
  <2> SUFFICES ASSUME RobotInv, http.pc = "write",
                      rhiv[http.index] # NoFd, sock[rhiv[http.index]].open
               PROVE  sock[rhiv[http.index]].owner = http.robot
    BY DEF CommandReachesRobot
  <2> QED
    BY DEF RobotInv, HttpInv, OwnerInv
<1>2. TurnInv /\ KeptApart /\ (TurnInv /\ KeptApart)' /\ RobotInv /\ ZeroFree /\ ZeroFree'
      /\ [Next /\ KeptApart']_vars => RobotInv'
  <2>1. [Next /\ KeptApart']_vars => [Next]_vars
    OBVIOUS
  <2> QED
    BY <2>1, RobotNext
<1> QED
  BY <1>1, <1>2, TurnAlways, RobotInit, PTL DEF ApartSpec
=============================================================================
