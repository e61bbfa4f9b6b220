----------------------------- MODULE GisServer -----------------------------
(***************************************************************************)
(* The GIS server (GIS/server/src): boxes connect, register and send          *)
(* positions; each position becomes a row of the database.  The epoll thread  *)
(* (socket.c), the pool's threads (logic.c, robot.c, sms.c, mysql.c) and the  *)
(* thread that closes connections (cm.c) share rInfo.                         *)
(*                                                                         *)
(* The test, the flag, the id and the count of a registration are steps of     *)
(* their own, and so are the test, the close and the clearing of an entry by   *)
(* the manager: nothing locks an entry.  GisInfo works on the static struct tm *)
(* of localtime, reads the id of the connection last and uses the one          *)
(* database connection.  The date of a report is the box that sent it; its     *)
(* fields, which are set in one step here, have one source each.              *)
(* Events other than RDHUP and IN, and time-outs, are those of RobotServer.    *)
(***************************************************************************)
EXTENDS Integers, Sequences, FiniteSets

CONSTANTS
  Fds,         \* descriptors
  Boxes,       \* serial numbers
  Pool,        \* threads of the pool
  MaxConnects, \* bound on connections in a behaviour
  MaxSends     \* bound on packets in a behaviour

None == "none"

VARIABLES
  link,       \* each descriptor: open, the box, its packets, closed by the box; whose
              \* ids were about its entry when it was accepted, and whether the manager
              \* still had the entry to clear
  rInfo,      \* tfd, tflag, id, and whether the time of the entry is over
  R_CON_NUM,
  queue,      \* jobs of the pool: descriptors
  job,        \* each thread: pc, descriptor, the box of its packet, the date and id it
              \* got; the boxes of reports worked on beside it, and of ids it may meet
  mg,         \* the manager: where it is, with which entry
  tm,         \* the static struct tm: whose date it holds; "now" after localtime
  rows,       \* rows stored: [date, id, of, beside, before]
  connects, sends

gisVars == <<link, rInfo, R_CON_NUM, queue, job, mg, tm, rows, connects, sends>>

Free   == [open |-> FALSE, box |-> None, packs |-> <<>>, fin |-> FALSE, before |-> {}, early |-> FALSE]
Unused == [tfd |-> FALSE, tflag |-> FALSE, id |-> None, over |-> TRUE]
Idle   == [pc |-> "idle", fd |-> 0, of |-> None, date |-> None, id |-> None, beside |-> {}, before |-> {}]
Scan   == [at |-> "scan", fd |-> 0]

\* main
GisInit ==
  /\ link = [f \in Fds |-> Free] /\ rInfo = [f \in Fds |-> Unused]
  /\ R_CON_NUM = 0 /\ queue = <<>> /\ job = [w \in Pool |-> Idle] /\ mg = Scan
  /\ tm = "now" /\ rows = {}
  /\ connects = 0 /\ sends = 0

InGisInfo == {w \in Pool : job[w].pc \in {"fill", "mktime", "insert"}}
Registering(f) == {w \in Pool : job[w].pc \in {"test", "tflag", "id"} /\ job[w].fd = f}

-----------------------------------------------------------------------------
(* The boxes, and the epoll thread                                         *)

\* The ids that may come up in the entry of f: its own, and those of threads that are
\* about to store one.
Left(f) == ({rInfo[f].id} \cup {job[w].of : w \in Registering(f)}) \ {None}

\* A box connects and RobotServer accepts it: the lowest free descriptor.  Only the
\* time and tfd of the entry are set.
Accept(box) ==
  /\ connects < MaxConnects /\ connects' = connects + 1
  /\ \E f \in Fds :
       /\ ~link[f].open /\ \A g \in Fds : ~link[g].open => f <= g
       /\ link' = [link EXCEPT ![f] =
            [open |-> TRUE, box |-> box, packs |-> <<>>, fin |-> FALSE, before |-> Left(f),
             early |-> mg.at \in {"clear", "clearNew"} /\ mg.fd = f]]
       /\ rInfo' = [rInfo EXCEPT ![f].tfd = TRUE, ![f].over = FALSE]
       /\ job' = [w \in Pool |-> IF w \in InGisInfo /\ job[w].fd = f
                                 THEN [job[w] EXCEPT !.before = @ \cup {box}] ELSE job[w]]
  /\ UNCHANGED <<R_CON_NUM, queue, mg, tm, rows, sends>>

\* EPOLLIN: a job is added for the descriptor.
Arrives(f, pack) ==
  /\ sends < MaxSends /\ sends' = sends + 1
  /\ link[f].open /\ ~link[f].fin
  /\ link' = [link EXCEPT ![f].packs = Append(@, pack)]
  /\ queue' = Append(queue, f)
  /\ UNCHANGED <<rInfo, R_CON_NUM, job, mg, tm, rows, connects>>

\* EPOLLRDHUP: ResetRClient makes the entry's time be over a second later.
HangsUp(f) ==
  /\ link[f].open /\ ~link[f].fin
  /\ link' = [link EXCEPT ![f].fin = TRUE]
  /\ rInfo' = [rInfo EXCEPT ![f].over = TRUE]
  /\ UNCHANGED <<R_CON_NUM, queue, job, mg, tm, rows, connects, sends>>

-----------------------------------------------------------------------------
(* RobotProcess                                                            *)

Take(w) ==
  /\ job[w].pc = "idle" /\ queue # <<>>
  /\ job' = [job EXCEPT ![w] = [Idle EXCEPT !.pc = "read", !.fd = Head(queue)]]
  /\ queue' = Tail(queue)
  /\ UNCHANGED <<link, rInfo, R_CON_NUM, mg, tm, rows, connects, sends>>

\* read has nothing, an end, or an error: the job is done.  At an end the entry is reset.
NothingToRead(w) ==
  LET f == job[w].fd IN
  /\ job[w].pc = "read" /\ link[f].packs = <<>>
  /\ rInfo' = IF link[f].open /\ link[f].fin THEN [rInfo EXCEPT ![f].over = TRUE] ELSE rInfo
  /\ job' = [job EXCEPT ![w] = Idle]
  /\ UNCHANGED <<link, R_CON_NUM, queue, mg, tm, rows, connects, sends>>

Reads(w, pack) ==
  /\ job[w].pc = "read"
  /\ link[job[w].fd].packs # <<>> /\ Head(link[job[w].fd].packs) = pack
  /\ link' = [link EXCEPT ![job[w].fd].packs = Tail(@)]

\* The last step of a packet is UpdateRClient: its time begins anew; on with the next.
Done(w) ==
  /\ job' = [job EXCEPT ![w] = [Idle EXCEPT !.pc = "read", !.fd = job[w].fd]]
  /\ rInfo' = [rInfo EXCEPT ![job[w].fd].over = FALSE]

Heart(w) ==
  /\ Reads(w, "heart") /\ Done(w)
  /\ UNCHANGED <<R_CON_NUM, queue, mg, tm, rows, connects, sends>>

\* The serial number is in the packet.
Register(w) ==
  /\ Reads(w, "register")
  /\ job' = [job EXCEPT ![w].pc = "test", ![w].of = link[job[w].fd].box]
  /\ UNCHANGED <<rInfo, R_CON_NUM, queue, mg, tm, rows, connects, sends>>

\* A connection that is registered is only refreshed.
Registered(w) ==
  /\ job[w].pc = "test" /\ rInfo[job[w].fd].tflag
  /\ Done(w)
  /\ UNCHANGED <<link, R_CON_NUM, queue, mg, tm, rows, connects, sends>>

NotRegistered(w) ==
  /\ job[w].pc = "test" /\ ~rInfo[job[w].fd].tflag
  /\ job' = [job EXCEPT ![w].pc = "tflag"]
  /\ UNCHANGED <<link, rInfo, R_CON_NUM, queue, mg, tm, rows, connects, sends>>

\* RobotInit: tflag, the id, the count.
SetTflag(w) ==
  /\ job[w].pc = "tflag"
  /\ rInfo' = [rInfo EXCEPT ![job[w].fd].tflag = TRUE]
  /\ job' = [job EXCEPT ![w].pc = "id"]
  /\ UNCHANGED <<link, R_CON_NUM, queue, mg, tm, rows, connects, sends>>

SetId(w) ==
  /\ job[w].pc = "id"
  /\ rInfo' = [rInfo EXCEPT ![job[w].fd].id = job[w].of]
  /\ job' = [job EXCEPT ![w].pc = "count"]
  /\ UNCHANGED <<link, R_CON_NUM, queue, mg, tm, rows, connects, sends>>

Count(w) ==
  /\ job[w].pc = "count"
  /\ R_CON_NUM' = R_CON_NUM + 1
  /\ Done(w)
  /\ UNCHANGED <<link, queue, mg, tm, rows, connects, sends>>

RobotInit(w) == SetTflag(w) \/ SetId(w) \/ Count(w)

-----------------------------------------------------------------------------
(* GisInfo, GisCommit and DbInsert                                         *)

\* The report is taken apart into locals; time, localtime: tm is the time of day.
Localtime(w) ==
  LET of == link[job[w].fd].box IN
  /\ Reads(w, "gis")
  /\ tm' = "now"
  /\ job' = [v \in Pool |->
       IF v = w THEN [job[w] EXCEPT !.pc = "fill", !.of = of, !.before = link[job[w].fd].before,
                                    !.beside = {job[u].of : u \in InGisInfo}]
       ELSE IF v \in InGisInfo THEN [job[v] EXCEPT !.beside = @ \cup {of}] ELSE job[v]]
  /\ UNCHANGED <<rInfo, R_CON_NUM, queue, mg, rows, connects, sends>>

\* The fields of tm are set from the report.
FillTm(w) ==
  /\ job[w].pc = "fill"
  /\ tm' = job[w].of
  /\ job' = [job EXCEPT ![w].pc = "mktime"]
  /\ UNCHANGED <<link, rInfo, R_CON_NUM, queue, mg, rows, connects, sends>>

\* mktime, eight hours on, localtime again, strftime, and the id of the connection.  Then
\* GetIp: it has no address, and the report is lost, or the insertion begins.
DateAndId(w) ==
  /\ job[w].pc = "mktime"
  /\ \/ Done(w)
     \/ /\ job' = [job EXCEPT ![w].pc = "insert", ![w].date = tm, ![w].id = rInfo[job[w].fd].id]
        /\ UNCHANGED rInfo
  /\ UNCHANGED <<link, R_CON_NUM, queue, mg, tm, rows, connects, sends>>

\* Two queries at once on env may leave one without effect; GisCommit does not look at
\* the result.
DbInsert(w) ==
  /\ job[w].pc = "insert"
  /\ \/ rows' = rows \cup {[date |-> job[w].date, id |-> job[w].id, of |-> job[w].of,
                            beside |-> job[w].beside, before |-> job[w].before]}
     \/ (\E v \in Pool \ {w} : job[v].pc = "insert") /\ UNCHANGED rows
  /\ Done(w)
  /\ UNCHANGED <<link, R_CON_NUM, queue, mg, tm, connects, sends>>

Process(w) ==
  \/ Take(w) \/ NothingToRead(w) \/ Heart(w) \/ Register(w) \/ Registered(w) \/ NotRegistered(w)
  \/ RobotInit(w) \/ Localtime(w) \/ FillTm(w) \/ DateAndId(w) \/ DbInsert(w)

-----------------------------------------------------------------------------
(* cm.c                                                                    *)

\* The time since the last packet is over.
TimeOver(f) ==
  /\ link[f].open /\ ~rInfo[f].over
  /\ rInfo' = [rInfo EXCEPT ![f].over = TRUE]
  /\ UNCHANGED <<link, R_CON_NUM, queue, job, mg, tm, rows, connects, sends>>

\* An entry whose time is over: a registered connection, or one that is not, or only a
\* flag that was set after the entry was cleared.
Visit(f) ==
  LET e == rInfo[f] IN
  /\ mg.at = "scan" /\ (e.tfd \/ e.tflag) /\ e.over
  /\ mg' = [at |-> IF e.tfd /\ e.tflag THEN "close" ELSE "closeNew", fd |-> f]
  /\ UNCHANGED <<link, rInfo, R_CON_NUM, queue, job, tm, rows, connects, sends>>

\* close(tfd), which is the descriptor, or 0.
ManagerCloses ==
  /\ mg.at \in {"close", "closeNew"}
  /\ link' = IF rInfo[mg.fd].tfd THEN [link EXCEPT ![mg.fd] = Free] ELSE link
  /\ mg' = [mg EXCEPT !.at = IF mg.at = "close" THEN "clear" ELSE "clearNew"]
  /\ UNCHANGED <<rInfo, R_CON_NUM, queue, job, tm, rows, connects, sends>>


Clear ==
  /\ mg.at = "clear"
  /\ rInfo' = [rInfo EXCEPT ![mg.fd] = [@ EXCEPT !.tfd = FALSE, !.tflag = FALSE, !.id = None]]
  /\ R_CON_NUM' = R_CON_NUM - 1 /\ mg' = Scan
  /\ UNCHANGED <<link, queue, job, tm, rows, connects, sends>>

\* The entry of a connection that had not registered keeps its id.
ClearNew ==
  /\ mg.at = "clearNew"
  /\ rInfo' = [rInfo EXCEPT ![mg.fd] = [@ EXCEPT !.tfd = FALSE, !.tflag = FALSE]] /\ mg' = Scan
  /\ UNCHANGED <<link, R_CON_NUM, queue, job, tm, rows, connects, sends>>

RClientManage == (\E f \in Fds : Visit(f)) \/ ManagerCloses \/ Clear \/ ClearNew

GisNext ==
  \/ \E box \in Boxes : Accept(box)
  \/ \E f \in Fds :
       \/ \E pack \in {"heart", "register", "gis"} : Arrives(f, pack)
       \/ HangsUp(f) \/ TimeOver(f)
  \/ RClientManage
  \/ \E w \in Pool : Process(w)

\* The manager goes round for ever, while the clock goes on.
ManagerAndClock == RClientManage \/ \E f \in Fds : TimeOver(f)

GisFair ==
  /\ \A w \in Pool : WF_gisVars(Process(w))
  /\ WF_gisVars(ManagerAndClock)

-----------------------------------------------------------------------------
(* Properties                                                              *)

GisTypeOK ==
  /\ R_CON_NUM \in -Cardinality(Pool)..MaxSends /\ tm \in Boxes \cup {"now"}
  /\ \A f \in Fds : rInfo[f].id \in Boxes \cup {None}

\* Where the date and the id of a row can be from.  The date is that of the box whose
\* report the row is of; only where a report of another thread was being worked on
\* beside it, that one's or the time of day (robot.c:120-133).  The id is the box's own,
\* or none when it had not registered; another's only if that one's id was in the entry,
\* or on the way into it, when the connection was accepted, or if the connection was
\* closed under the report and the descriptor given to another box (robot.c:28, cm.c:35-57).
RowOfOneReport ==
  \A r \in rows :
    /\ r.date = r.of \/ (r.beside # {} /\ r.date \in r.beside \cup {"now"})
    /\ r.id \in {None, r.of} \cup r.before

\* The number that is logged is never below that of the registered entries, save for
\* threads that have yet to count theirs, however connections come, register twice at a
\* time, fall silent and hang up (logic.c:45, robot.c:26-30, cm.c:35-57).  It may be above:
\* two threads that both saw tflag 0 count the same entry twice.
CountsRegistered ==
  R_CON_NUM + Cardinality({w \in Pool : job[w].pc \in {"id", "count"}})
    >= Cardinality({f \in Fds : rInfo[f].tflag})

\* A descriptor whose box hung up is closed, although packets read after that make its
\* entry young again (cm.c:73-82, logic.c:60).  One that was accepted between the close
\* and the clearing of its entry's last connection is not: clearing takes its tfd.
HangUpIsClosed == \A f \in Fds : (link[f].fin /\ ~link[f].early) ~> ~link[f].open
=============================================================================
