----------------------------- MODULE RobotServer -----------------------------
(***************************************************************************)
(* The robot server's connection table: server/src/socket.c (the epoll      *)
(* thread and the HTTP thread), logic.c and robot.c (RobotProcess, run by    *)
(* the threads of the pool) and cm.c (the thread that closes silent          *)
(* connections).  They share rInfo, hInfo and RidHash, and hold no lock.     *)
(*                                                                         *)
(* An action is one access to the shared tables or one system call; stores   *)
(* to one entry that follow each other are one step.  So the threads         *)
(* interleave as they do on a machine.  ApartSpec leaves out the behaviours  *)
(* in which three critical sections overlap that no lock protects            *)
(* (KeptApart): what the design gives without those races.                   *)
(*                                                                         *)
(* The pool is the abstract one of WorkPool, which ThreadPool implements.    *)
(* Time is the age now - cntime of each entry, counted up to where no test   *)
(* tells it apart.                                                         *)
(***************************************************************************)
EXTENDS HashTable, Sequences

CONSTANTS
  Fd,           \* socket descriptors, 1..n: also the indices of rInfo
  Worker,       \* the pool's threads
  Capacity,     \* the pool's max_queue_size
  HEART_TIME,   \* ROBOT_HEART_TIME, in ticks
  DEAD_TIME,    \* ROBOT_DEAD_TIME, in ticks
  ReadSize,     \* packets that fit in the 1024 bytes of a read
  MaxConnects,  \* bound on connections made in a behaviour
  MaxSends,     \* bound on packets sent in a behaviour
  MaxCloses,    \* bound on connections the robots close in a behaviour
  ErrEvents     \* BOOLEAN: epoll may report an event that is neither IN nor RDHUP

NoFd == 0
RFd  == Fd \cup {NoFd}
NoJob == NoFd

ASSUME FdAssumption == IsFiniteSet(Fd) /\ Fd # {} /\ \A f \in Fd : f \in Nat /\ f # 0
ASSUME CapacityAssumption == Capacity \in Nat /\ ReadSize \in Nat \ {0}
ASSUME TimeAssumption == DEAD_TIME \in Nat /\ HEART_TIME \in Nat /\ DEAD_TIME < HEART_TIME

VARIABLES
  sock,       \* the kernel's side of each descriptor
  backlog,    \* robots whose connection waits for accept
  newConn,    \* the edge of the listening socket
  rInfo,      \* rInfo[fd], entry 0 included
  rhiv,       \* hInfo[slot].rhiv
  RidHash,    \* the serial number in each slot
  R_CON_NUM,  \* the printed number of robots
  ep,         \* RobotServer: pc, the events of its epoll_wait, the new descriptor
  pending,    \* the pool's list of jobs
  running,    \* the job of each pool thread
  wk,         \* RobotProcess in each thread: pc, unparsed packets, robot, index
  mg,         \* RClientManage: pc and entry
  http,       \* HttpServer: pc, requested robot, index
  dropped,    \* a job was refused by the full pool
  left        \* what the environment may still do: connect, send, close

serverVars == <<rInfo, rhiv, RidHash, R_CON_NUM>>
poolVars   == <<pending, running>>
envVars    == <<backlog, newConn, left>>
vars == <<sock, backlog, newConn, rInfo, rhiv, RidHash, R_CON_NUM, ep, pending,
          running, wk, mg, http, dropped, left>>

Pool == INSTANCE WorkPool WITH
          Job <- Fd, Drain <- TRUE, finished <- {}, phase <- "open"

Packet == Id \cup {"heart"}
MaxAge == HEART_TIME + 1
Closed == [open |-> FALSE, owner |-> NoId, inbox |-> <<>>, fin |-> FALSE,
           edge |-> FALSE, err |-> FALSE]
NoInfo == [age |-> MaxAge, tfd |-> NoFd, tflag |-> NoFd, cflag |-> 0, hiv |-> 0]

Init ==
  /\ sock = [f \in Fd |-> Closed]
  /\ backlog = <<>>
  /\ newConn = FALSE
  /\ rInfo = [f \in RFd |-> NoInfo]
  /\ rhiv = [s \in Slot |-> NoFd]
  /\ RidHash = [s \in Slot |-> NoId]
  /\ R_CON_NUM = 0
  /\ ep = [pc |-> "wait", events |-> {}, fd |-> NoFd]
  /\ pending = <<>>
  /\ running = [w \in Worker |-> NoJob]
  /\ wk = [w \in Worker |-> [pc |-> "idle", packs |-> <<>>, robot |-> NoId, index |-> 0]]
  /\ mg = [pc |-> "scan", fd |-> NoFd]
  /\ http = [pc |-> "idle", robot |-> NoId, index |-> 0]
  /\ dropped = FALSE
  /\ left = [connects |-> MaxConnects, sends |-> MaxSends, closes |-> MaxCloses]

-----------------------------------------------------------------------------
(* Where the threads are                                                   *)

\* The epoll thread has accepted f and not put it into the table yet;
\* RClientManage has closed f and not taken it out yet.
Opening(f) == ep.pc \in {"stamp", "enlist"} /\ ep.fd = f
Closing(f) == mg.pc \in {"unlink", "clear", "clearNew"} /\ mg.fd = f

\* A thread of the pool works on what it has read, and is inside RobotInit.
AtWork(w)  == wk[w].pc \notin {"idle", "read"}
InLogin(w) == wk[w].pc \in {"login", "old", "tflag", "rhiv", "hiv", "count"}

\* No thread is half way through the tables.
Settled ==
  mg.pc = "scan" /\ (\A f \in Fd : ~Opening(f)) /\ \A w \in Worker : ~InLogin(w)

\* What no lock of the code prevents and the tables do not survive: RobotInit
\* run by two threads at once (cm.c and robot.c hold no lock), RClientManage
\* giving up the connection a thread is working on or the one that its robot
\* had before, a thread that reads a connection before accept has entered it, and
\* a closed descriptor accepted again before its entry is cleared.
KeptApart ==
  /\ \A v, w \in Worker : InLogin(v) /\ InLogin(w) => v = w
  /\ \A w \in Worker : AtWork(w) => ~Opening(running[w])
  /\ mg.pc # "scan" => \A w \in Worker :
       /\ AtWork(w) => running[w] # mg.fd
       /\ InLogin(w) => rhiv[wk[w].index] # mg.fd
  /\ \A f \in Fd : Closing(f) => ~sock[f].open

-----------------------------------------------------------------------------
(* hash.c on RidHash: each call is one step                                *)

GetHashTablePos(r) == Search(RidHash, r)
InsertPos(r) == InsertSlot(RidHash, r)

-----------------------------------------------------------------------------
(* The robots and the clock                                                *)

Connect(r) ==
  /\ left.connects > 0
  /\ left' = [left EXCEPT !.connects = @ - 1]
  /\ backlog' = Append(backlog, r)
  /\ newConn' = TRUE
  /\ UNCHANGED <<sock, serverVars, ep, poolVars, wk, mg, http, dropped>>

Send(f, m) ==
  /\ left.sends > 0
  /\ sock[f].open /\ ~sock[f].fin
  /\ m \in {"heart", sock[f].owner}
  /\ left' = [left EXCEPT !.sends = @ - 1]
  /\ sock' = [sock EXCEPT ![f].inbox = Append(@, m), ![f].edge = TRUE]
  /\ UNCHANGED <<backlog, newConn, serverVars, ep, poolVars, wk, mg, http, dropped>>

PeerCloses(f) ==
  /\ left.closes > 0
  /\ left' = [left EXCEPT !.closes = @ - 1]
  /\ sock[f].open /\ ~sock[f].fin
  /\ sock' = [sock EXCEPT ![f].fin = TRUE, ![f].edge = TRUE]
  /\ UNCHANGED <<backlog, newConn, serverVars, ep, poolVars, wk, mg, http, dropped>>

SocketError(f) ==
  /\ ErrEvents
  /\ sock[f].open /\ ~sock[f].fin /\ ~sock[f].err
  /\ sock' = [sock EXCEPT ![f].err = TRUE, ![f].edge = TRUE]
  /\ UNCHANGED <<envVars, serverVars, ep, poolVars, wk, mg, http, dropped>>

Tick ==
  /\ rInfo' = [f \in RFd |-> [rInfo[f] EXCEPT !.age = IF @ < MaxAge THEN @ + 1 ELSE @]]
  /\ UNCHANGED <<sock, envVars, rhiv, RidHash, R_CON_NUM, ep, poolVars, wk, mg, http, dropped>>

-----------------------------------------------------------------------------
(* cm.c: the two functions others call                                     *)

Updated(f) == [rInfo EXCEPT ![f].age = 0]

\* One second short of a timeout, with the close flag of an active close.
Reset(f) ==
  [rInfo EXCEPT ![f].age = IF rInfo[f].tflag # NoFd THEN HEART_TIME ELSE DEAD_TIME,
                ![f].cflag = -1]

-----------------------------------------------------------------------------
(* socket.c: the epoll thread                                              *)

\* What epoll_wait says of a descriptor whose edge was seen: it looks at the
\* socket again, and the loop tests RDHUP before IN.
EventKind(f) ==
  IF sock[f].fin THEN "rdhup" ELSE IF sock[f].inbox # <<>> THEN "in" ELSE "other"

Reported(f) == sock[f].edge /\ (sock[f].fin \/ sock[f].inbox # <<>> \/ sock[f].err)

EpollWait ==
  /\ ep.pc = "wait"
  /\ newConn \/ \E f \in Fd : sock[f].edge
  /\ LET events == {[fd |-> f, kind |-> EventKind(f)] : f \in {g \in Fd : Reported(g)}}
                     \cup IF newConn THEN {[fd |-> NoFd, kind |-> "listen"]} ELSE {}
     IN  ep' = [ep EXCEPT !.events = events, !.pc = IF events = {} THEN "wait" ELSE "loop"]
  /\ sock' = [f \in Fd |-> [sock[f] EXCEPT !.edge = FALSE]]
  /\ newConn' = FALSE
  /\ UNCHANGED <<backlog, left, serverVars, poolVars, wk, mg, http, dropped>>

\* The loop over the events goes on without e, or ends.
EpAfter(e, at) ==
  [ep EXCEPT !.events = @ \ {e},
             !.pc = IF at = "loop" /\ ep.events = {e} THEN "wait" ELSE at]

HandleListen(e) ==
  /\ ep.pc = "loop" /\ e \in ep.events /\ e.kind = "listen"
  /\ ep' = EpAfter(e, "accept")
  /\ UNCHANGED <<sock, envVars, serverVars, poolVars, wk, mg, http, dropped>>

HandleRdhup(e) ==
  /\ ep.pc = "loop" /\ e \in ep.events /\ e.kind = "rdhup"
  /\ rInfo' = Reset(e.fd)
  /\ ep' = EpAfter(e, "loop")
  /\ UNCHANGED <<sock, envVars, rhiv, RidHash, R_CON_NUM, poolVars, wk, mg, http, dropped>>

\* tpool_add_work, whose -1 for a full list is not looked at.
HandleIn(e) ==
  /\ ep.pc = "loop" /\ e \in ep.events /\ e.kind = "in"
  /\ \/ Pool!Submit(e.fd) /\ UNCHANGED dropped
     \/ Len(pending) = Capacity /\ dropped' = TRUE /\ UNCHANGED poolVars
  /\ ep' = EpAfter(e, "loop")
  /\ UNCHANGED <<sock, envVars, serverVars, wk, mg, http>>

\* Neither RDHUP nor IN: the descriptor is closed, its entry is left as it is.
HandleOther(e) ==
  /\ ep.pc = "loop" /\ e \in ep.events /\ e.kind = "other"
  /\ sock' = [sock EXCEPT ![e.fd] = Closed]
  /\ ep' = EpAfter(e, "loop")
  /\ UNCHANGED <<envVars, serverVars, poolVars, wk, mg, http, dropped>>

\* accept returns the lowest free descriptor, which is put under epoll.  EPOLL_CTL_ADD is
\* taken not to fail: the descriptor would be open, without events or an entry, for ever
\* (socket.c:87-88).
FreeFd == {f \in Fd : ~sock[f].open}

Accept ==
  /\ ep.pc = "accept"
  /\ backlog # <<>>
  /\ \E f \in FreeFd :
       /\ \A g \in FreeFd : f <= g
       /\ sock' = [sock EXCEPT ![f] = [Closed EXCEPT !.open = TRUE, !.owner = Head(backlog)]]
       /\ ep' = [ep EXCEPT !.pc = "stamp", !.fd = f]
  /\ backlog' = Tail(backlog)
  /\ UNCHANGED <<newConn, left, serverVars, poolVars, wk, mg, http, dropped>>

AcceptEnds ==
  /\ ep.pc = "accept"
  /\ backlog = <<>> \/ FreeFd = {}
  /\ ep' = [ep EXCEPT !.pc = IF ep.events = {} THEN "wait" ELSE "loop", !.fd = NoFd]
  /\ UNCHANGED <<sock, envVars, serverVars, poolVars, wk, mg, http, dropped>>

Stamp ==
  /\ ep.pc = "stamp"
  /\ rInfo' = Updated(ep.fd)
  /\ ep' = [ep EXCEPT !.pc = "enlist"]
  /\ UNCHANGED <<sock, envVars, rhiv, RidHash, R_CON_NUM, poolVars, wk, mg, http, dropped>>

Enlist ==
  /\ ep.pc = "enlist"
  /\ rInfo' = [rInfo EXCEPT ![ep.fd].tfd = ep.fd]
  /\ ep' = [ep EXCEPT !.pc = "accept"]
  /\ UNCHANGED <<sock, envVars, rhiv, RidHash, R_CON_NUM, poolVars, wk, mg, http, dropped>>

EpollStep ==
  \/ EpollWait
  \/ \E e \in ep.events : HandleListen(e) \/ HandleRdhup(e) \/ HandleIn(e) \/ HandleOther(e)
  \/ Accept \/ AcceptEnds \/ Stamp \/ Enlist

-----------------------------------------------------------------------------
(* logic.c and robot.c: RobotProcess in a thread of the pool                *)

StartJob(w) ==
  /\ wk[w].pc = "idle"
  /\ Pool!Start(w)
  /\ wk' = [wk EXCEPT ![w].pc = "read"]
  /\ UNCHANGED <<sock, envVars, serverVars, ep, mg, http, dropped>>

JobEnds(w) ==
  /\ running' = [running EXCEPT ![w] = NoJob]
  /\ wk' = [wk EXCEPT ![w] = [pc |-> "idle", packs |-> <<>>, robot |-> NoId, index |-> 0]]
  /\ UNCHANGED pending

\* read returns what the socket holds and the buffer takes.
ReadData(w) ==
  LET f == running[w]
      n == IF Len(sock[f].inbox) < ReadSize THEN Len(sock[f].inbox) ELSE ReadSize
  IN
  /\ wk[w].pc = "read"
  /\ sock[f].open /\ sock[f].inbox # <<>>
  /\ wk' = [wk EXCEPT ![w].pc = "parse", ![w].packs = SubSeq(sock[f].inbox, 1, n)]
  /\ sock' = [sock EXCEPT ![f].inbox = SubSeq(@, n + 1, Len(@))]
  /\ UNCHANGED <<envVars, serverVars, ep, poolVars, mg, http, dropped>>

\* read returns 0: the peer has closed.
ReadEof(w) ==
  LET f == running[w] IN
  /\ wk[w].pc = "read"
  /\ sock[f].open /\ sock[f].inbox = <<>> /\ sock[f].fin
  /\ wk' = [wk EXCEPT ![w].pc = "reset"]
  /\ UNCHANGED <<sock, envVars, serverVars, ep, poolVars, mg, http, dropped>>

\* read returns -1: nothing to read yet, or not an open descriptor.
ReadNothing(w) ==
  LET f == running[w] IN
  /\ wk[w].pc = "read"
  /\ ~sock[f].open \/ (sock[f].inbox = <<>> /\ ~sock[f].fin)
  /\ JobEnds(w)
  /\ UNCHANGED <<sock, envVars, serverVars, ep, mg, http, dropped>>

ResetAfterEof(w) ==
  /\ wk[w].pc = "reset"
  /\ rInfo' = Reset(running[w])
  /\ JobEnds(w)
  /\ UNCHANGED <<sock, envVars, rhiv, RidHash, R_CON_NUM, ep, mg, http, dropped>>

NextPacket(w, at) == [wk EXCEPT ![w].packs = Tail(@), ![w].pc = at]

\* Mutant: one read per event, as with level-triggered epoll.
PacketsEndJob(w) ==
  /\ wk[w].pc = "parse" /\ wk[w].packs = <<>>
  /\ JobEnds(w)
  /\ UNCHANGED <<sock, envVars, serverVars, ep, mg, http, dropped>>

PacketsEnd(w) ==
  /\ wk[w].pc = "parse" /\ wk[w].packs = <<>>
  /\ wk' = [wk EXCEPT ![w].pc = "read"]
  /\ UNCHANGED <<sock, envVars, serverVars, ep, poolVars, mg, http, dropped>>

\* A heartbeat, a position report or a registration that was already made.
RefreshPacket(w) ==
  /\ wk[w].pc = "parse" /\ wk[w].packs # <<>>
  /\ Head(wk[w].packs) = "heart" \/ rInfo[running[w]].tflag # NoFd
  /\ rInfo' = Updated(running[w])
  /\ wk' = NextPacket(w, "parse")
  /\ UNCHANGED <<sock, envVars, rhiv, RidHash, R_CON_NUM, ep, poolVars, mg, http, dropped>>

\* Mutant: RobotInit is called for every registration packet.
RegisterPacketAgain(w) ==
  /\ wk[w].pc = "parse" /\ wk[w].packs # <<>>
  /\ Head(wk[w].packs) # "heart"
  /\ LET r == Head(wk[w].packs)
     IN  wk' = [NextPacket(w, "login") EXCEPT ![w].robot = r, ![w].index = GetHashTablePos(r)]
  /\ UNCHANGED <<sock, envVars, serverVars, ep, poolVars, mg, http, dropped>>

\* RobotInit looks the serial number up.
RegisterPacket(w) ==
  /\ wk[w].pc = "parse" /\ wk[w].packs # <<>>
  /\ Head(wk[w].packs) # "heart" /\ rInfo[running[w]].tflag = NoFd
  /\ LET r == Head(wk[w].packs)
     IN  wk' = [NextPacket(w, "login") EXCEPT ![w].robot = r, ![w].index = GetHashTablePos(r)]
  /\ UNCHANGED <<sock, envVars, serverVars, ep, poolVars, mg, http, dropped>>

\* Index 0: the robot is taken to be unknown and is given a slot.
NewRobot(w) ==
  /\ wk[w].pc = "login" /\ wk[w].index = 0
  /\ LET s == InsertPos(wk[w].robot)
     IN  /\ RidHash' = [RidHash EXCEPT ![s] = wk[w].robot]
         /\ wk' = [wk EXCEPT ![w].index = s, ![w].pc = "tflag"]
  /\ UNCHANGED <<sock, envVars, rInfo, rhiv, R_CON_NUM, ep, poolVars, mg, http, dropped>>

FirstLogin(w) ==
  /\ wk[w].pc = "login" /\ wk[w].index # 0
  /\ rInfo[rhiv[wk[w].index]].tfd = NoFd
  /\ wk' = [wk EXCEPT ![w].pc = "tflag"]
  /\ UNCHANGED <<sock, envVars, serverVars, ep, poolVars, mg, http, dropped>>

\* The robot's last connection is flagged, then made old.
LoginAgain(w) ==
  /\ wk[w].pc = "login" /\ wk[w].index # 0
  /\ rInfo[rhiv[wk[w].index]].tfd # NoFd
  /\ rInfo' = [rInfo EXCEPT ![rhiv[wk[w].index]].cflag = -2]
  /\ wk' = [wk EXCEPT ![w].pc = "old"]
  /\ UNCHANGED <<sock, envVars, rhiv, RidHash, R_CON_NUM, ep, poolVars, mg, http, dropped>>

OldLogin(w) ==
  /\ wk[w].pc = "old"
  /\ rInfo' = [rInfo EXCEPT ![rhiv[wk[w].index]].age = HEART_TIME]
  /\ wk' = [wk EXCEPT ![w].pc = "tflag"]
  /\ UNCHANGED <<sock, envVars, rhiv, RidHash, R_CON_NUM, ep, poolVars, mg, http, dropped>>

\* Mutant: the hash index for the descriptor.
SetTflagIndex(w) ==
  /\ wk[w].pc = "tflag"
  /\ rInfo' = [rInfo EXCEPT ![running[w]].tflag = wk[w].index]
  /\ wk' = [wk EXCEPT ![w].pc = "rhiv"]
  /\ UNCHANGED <<sock, envVars, rhiv, RidHash, R_CON_NUM, ep, poolVars, mg, http, dropped>>

SetTflag(w) ==
  /\ wk[w].pc = "tflag"
  /\ rInfo' = [rInfo EXCEPT ![running[w]].tflag = running[w]]
  /\ wk' = [wk EXCEPT ![w].pc = "rhiv"]
  /\ UNCHANGED <<sock, envVars, rhiv, RidHash, R_CON_NUM, ep, poolVars, mg, http, dropped>>

SetRhiv(w) ==
  /\ wk[w].pc = "rhiv"
  /\ rhiv' = [rhiv EXCEPT ![wk[w].index] = running[w]]
  /\ wk' = [wk EXCEPT ![w].pc = "hiv"]
  /\ UNCHANGED <<sock, envVars, rInfo, RidHash, R_CON_NUM, ep, poolVars, mg, http, dropped>>

SetHiv(w) ==
  /\ wk[w].pc = "hiv"
  /\ rInfo' = [rInfo EXCEPT ![running[w]].hiv = wk[w].index]
  /\ wk' = [wk EXCEPT ![w].pc = "count"]
  /\ UNCHANGED <<sock, envVars, rhiv, RidHash, R_CON_NUM, ep, poolVars, mg, http, dropped>>

\* atomic_inc, and RobotProcess stamps the entry.
CountRobot(w) ==
  /\ wk[w].pc = "count"
  /\ R_CON_NUM' = R_CON_NUM + 1
  /\ rInfo' = Updated(running[w])
  /\ wk' = [wk EXCEPT ![w].pc = "parse", ![w].robot = NoId, ![w].index = 0]
  /\ UNCHANGED <<sock, envVars, rhiv, RidHash, ep, poolVars, mg, http, dropped>>

WorkerStep(w) ==
  \/ StartJob(w)
  \/ ReadData(w) \/ ReadEof(w) \/ ReadNothing(w) \/ ResetAfterEof(w)
  \/ PacketsEnd(w) \/ RefreshPacket(w) \/ RegisterPacket(w)
  \/ NewRobot(w) \/ FirstLogin(w) \/ LoginAgain(w) \/ OldLogin(w)
  \/ SetTflag(w) \/ SetRhiv(w) \/ SetHiv(w) \/ CountRobot(w)

-----------------------------------------------------------------------------
(* cm.c: RClientManage.  It visits the entries in turn with the time of the  *)
(* pass; here a visit takes the time of the visit, which is never earlier.   *)

Registered(f) == rInfo[f].tfd # NoFd /\ rInfo[f].tflag # NoFd

\* Mutant: both instead of either.
NewClientBoth(f) == ~Registered(f) /\ rInfo[f].tfd # NoFd /\ rInfo[f].tflag # NoFd

NewClient(f) == ~Registered(f) /\ (rInfo[f].tfd # NoFd \/ rInfo[f].tflag # NoFd)

VisitRegistered(f) ==
  /\ mg.pc = "scan"
  /\ Registered(f) /\ rInfo[f].age > HEART_TIME
  /\ mg' = [pc |-> "close", fd |-> f]
  /\ UNCHANGED <<sock, envVars, serverVars, ep, poolVars, wk, http, dropped>>

VisitNew(f) ==
  /\ mg.pc = "scan"
  /\ NewClient(f) /\ rInfo[f].age > DEAD_TIME
  /\ mg' = [pc |-> "closeNew", fd |-> f]
  /\ UNCHANGED <<sock, envVars, serverVars, ep, poolVars, wk, http, dropped>>

\* close(rInfo[i].tfd), which need not be a socket any more.
ManagerCloses ==
  /\ mg.pc \in {"close", "closeNew"}
  /\ sock' = [f \in Fd |-> IF f = rInfo[mg.fd].tfd THEN Closed ELSE sock[f]]
  /\ mg' = [mg EXCEPT !.pc = IF @ = "close" THEN "unlink" ELSE "clearNew"]
  /\ UNCHANGED <<envVars, serverVars, ep, poolVars, wk, http, dropped>>

\* Mutant: only an active close takes the handle out of the slot.
UnlinkActive ==
  /\ mg.pc = "unlink"
  /\ rhiv' = IF rInfo[mg.fd].cflag = -1 THEN [rhiv EXCEPT ![rInfo[mg.fd].hiv] = NoFd] ELSE rhiv
  /\ mg' = [mg EXCEPT !.pc = "clear"]
  /\ UNCHANGED <<sock, envVars, rInfo, RidHash, R_CON_NUM, ep, poolVars, wk, http, dropped>>

Unlink ==
  /\ mg.pc = "unlink"
  /\ rhiv' = IF rInfo[mg.fd].cflag # -2 THEN [rhiv EXCEPT ![rInfo[mg.fd].hiv] = NoFd] ELSE rhiv
  /\ mg' = [mg EXCEPT !.pc = "clear"]
  /\ UNCHANGED <<sock, envVars, rInfo, RidHash, R_CON_NUM, ep, poolVars, wk, http, dropped>>

Clear ==
  /\ mg.pc = "clear"
  /\ rInfo' = [rInfo EXCEPT ![mg.fd] = [NoInfo EXCEPT !.age = rInfo[mg.fd].age]]
  /\ R_CON_NUM' = R_CON_NUM - 1
  /\ mg' = [pc |-> "scan", fd |-> NoFd]
  /\ UNCHANGED <<sock, envVars, rhiv, RidHash, ep, poolVars, wk, http, dropped>>

\* Mutant: the descriptor stays in the entry.
ClearNewKeepsTfd ==
  /\ mg.pc = "clearNew"
  /\ rInfo' = [rInfo EXCEPT ![mg.fd].tflag = NoFd]
  /\ mg' = [pc |-> "scan", fd |-> NoFd]
  /\ UNCHANGED <<sock, envVars, rhiv, RidHash, R_CON_NUM, ep, poolVars, wk, http, dropped>>

\* cflag and hiv stay.
ClearNew ==
  /\ mg.pc = "clearNew"
  /\ rInfo' = [rInfo EXCEPT ![mg.fd].tfd = NoFd, ![mg.fd].tflag = NoFd]
  /\ mg' = [pc |-> "scan", fd |-> NoFd]
  /\ UNCHANGED <<sock, envVars, rhiv, RidHash, R_CON_NUM, ep, poolVars, wk, http, dropped>>

ManagerStep ==
  \/ \E f \in Fd : VisitRegistered(f) \/ VisitNew(f)
  \/ ManagerCloses \/ Unlink \/ Clear \/ ClearNew

-----------------------------------------------------------------------------
(* socket.c: the HTTP thread                                               *)

\* The slot of the serial number; with no handle in it the answer is '0'.
Request(r) ==
  /\ http.pc = "idle"
  /\ rhiv[GetHashTablePos(r)] # NoFd
  /\ http' = [pc |-> "write", robot |-> r, index |-> GetHashTablePos(r)]
  /\ UNCHANGED <<sock, envVars, serverVars, ep, poolVars, wk, mg, dropped>>

\* The handle is read again for the write; the answer is '1' whatever it does.
WriteCommand ==
  /\ http.pc = "write"
  /\ http' = [pc |-> "idle", robot |-> NoId, index |-> 0]
  /\ UNCHANGED <<sock, envVars, serverVars, ep, poolVars, wk, mg, dropped>>

HttpStep == WriteCommand \/ \E r \in Id : Request(r)

-----------------------------------------------------------------------------
Environment ==
  \/ \E r \in Id : Connect(r)
  \/ \E f \in Fd : PeerCloses(f) \/ SocketError(f) \/ \E m \in Packet : Send(f, m)

Next ==
  \/ Environment
  \/ Tick
  \/ EpollStep
  \/ \E w \in Worker : WorkerStep(w)
  \/ ManagerStep
  \/ HttpStep

SafeSpec == Init /\ [][Next]_vars

\* The behaviours without the overlaps KeptApart names.
ApartSpec == Init /\ [][Next /\ KeptApart']_vars

\* Time passes and every thread of the server gets its turn.  The robots and
\* the web clients owe nothing.
Spec ==
  /\ SafeSpec
  /\ WF_vars(Tick)
  /\ WF_vars(EpollStep)
  /\ \A w \in Worker : WF_vars(WorkerStep(w))
  /\ WF_vars(ManagerStep)
  /\ WF_vars(WriteCommand)

-----------------------------------------------------------------------------
(* What the tables should say                                              *)

TypeOK ==
  /\ sock \in [Fd -> [open : BOOLEAN, owner : Id \cup {NoId}, inbox : Seq(Packet),
                      fin : BOOLEAN, edge : BOOLEAN, err : BOOLEAN]]
  /\ backlog \in Seq(Id) /\ newConn \in BOOLEAN
  /\ rInfo \in [RFd -> [age : 0..MaxAge, tfd : RFd, tflag : RFd, cflag : {0, -1, -2}, hiv : Slot]]
  /\ \A f \in Fd : rInfo[f].tfd \in {NoFd, f} /\ rInfo[f].tflag \in {NoFd, f}
  /\ rhiv \in [Slot -> RFd]
  /\ RidHash \in [Slot -> Id \cup {NoId}]
  /\ R_CON_NUM \in Int
  /\ pending \in Seq(Fd) /\ Len(pending) <= Capacity
  /\ running \in [Worker -> RFd]
  /\ dropped \in BOOLEAN

\* A slot's handle is an open connection registered for that slot: what the
\* HTTP thread takes for "online" (socket.c:174) is never a connection that
\* RClientManage has given up (cm.c:34-41) or a descriptor another robot has.
OnlineMeansOpen ==
  Settled => \A s \in Slot : rhiv[s] # NoFd =>
    /\ sock[rhiv[s]].open
    /\ Registered(rhiv[s])
    /\ rInfo[rhiv[s]].hiv = s

\* The registered connection of a robot that has neither hung up nor logged in
\* again is the handle in its slot: the robot is "online" (socket.c:174,
\* robot.c:37, 43).
RegisteredIsOnline ==
  Settled => \A f \in Fd :
    sock[f].open /\ ~sock[f].fin /\ Registered(f) /\ rInfo[f].cflag = 0 => rhiv[rInfo[f].hiv] = f

\* The printed number of robots is the number of registered entries
\* (robot.c:29, 46, cm.c:45).
ConnectionCount ==
  Settled => R_CON_NUM = Cardinality({f \in Fd : rInfo[f].tflag # NoFd})

\* Every connection is in the table RClientManage looks through, so that a
\* silent one cannot stay for ever, and every entry is an open connection.
OpenIsWatched == Settled => \A f \in Fd : sock[f].open <=> rInfo[f].tfd = f

\* A command never goes to another robot, although the handle is read again for
\* the write (socket.c:174, 182): meanwhile the robot may have logged in on
\* another connection, its slot may have been emptied, and the connection
\* closed, but not replaced by another robot's.
CommandReachesRobot ==
  http.pc = "write" =>
    LET f == rhiv[http.index]
    IN  f # NoFd /\ sock[f].open => sock[f].owner = http.robot

\* With edge-triggered epoll, data in a socket is always somebody's to read:
\* an edge, an event or a job is there for it, unless a full pool refused the
\* job (socket.c:103-106, logic.c:9, 80-85) or the peer has closed, which makes
\* the loop close the connection without reading it.
NoStrandedData ==
  \A f \in Fd : sock[f].open /\ sock[f].inbox # <<>> /\ ~sock[f].fin =>
    \/ sock[f].edge
    \/ \E e \in ep.events : e.fd = f /\ e.kind = "in"
    \/ \E i \in 1..Len(pending) : pending[i] = f
    \/ \E w \in Worker : running[w] = f
    \/ dropped

\* A connection that is accepted is closed once its robot has no more to say
\* (cm.c:24-59), unless its entry is wiped with its predecessor's: RClientManage
\* closes a descriptor (34, 54) before it clears the entry (38, 55), and accept
\* may hand it out and enter it in between.
Wiped(f) == sock[f].open /\ rInfo[f].tfd = NoFd /\ ~Opening(f)
SilentIsClosed == \A f \in Fd : sock[f].open ~> (~sock[f].open \/ Wiped(f))
=============================================================================
