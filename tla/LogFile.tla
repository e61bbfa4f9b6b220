------------------------------ MODULE LogFile ------------------------------
(***************************************************************************)
(* The log of the servers (server/src/log.c): lprintf, called by every      *)
(* thread, and LogManage, which starts a new file when the old one is long.  *)
(*                                                                         *)
(* All calls format into one static line before they take the semaphore, and *)
(* read the descriptor before that.  A line is the list of its parts, each    *)
(* with the call it came from.  Descriptors are given as the kernel gives      *)
(* them: the lowest that is free.                                           *)
(***************************************************************************)
EXTENDS Integers, Sequences

CONSTANTS
  Callers,    \* threads that log
  LogMax,     \* LOG_MAX, in lines
  MaxCalls,   \* bound on the calls of a behaviour
  MaxOpens    \* bound on descriptors that other threads open

Lfd == 3
Descriptors == Lfd..(Lfd + MaxOpens + 1)

VARIABLES
  lpc,        \* lprintf in each thread
  fd,         \* the descriptor it read from the log structure
  endsLine,   \* its message has a line end of its own
  line,       \* static line[LOGLINE_MAX]
  sem,        \* log->sem
  logFd,      \* log->fd
  files,      \* each descriptor: 0 closed, n the nth log file, -1 something else
  LogFile,    \* the log file in use
  size,       \* the lines in it
  broken,     \* a call that nobody disturbed wrote something else than its line
  stray,      \* a line went elsewhere than to the log
  mpc,        \* LogManage
  overlap,    \* calls whose line another call formatted into
  raced,      \* a descriptor was opened elsewhere during a change of file
  calls, opens

logVars == <<lpc, fd, endsLine, line, sem, logFd, files, LogFile, size, broken,
             stray, mpc, overlap, raced, calls, opens>>

Formatting == {t \in Callers : lpc[t] \notin {"idle", "post"}}
Lowest(table) == CHOOSE f \in Descriptors : table[f] = 0 /\ \A g \in Descriptors : table[g] = 0 => f <= g

LogInit ==
  /\ lpc = [t \in Callers |-> "idle"] /\ fd = [t \in Callers |-> 0]
  /\ endsLine = [t \in Callers |-> FALSE]
  /\ line = <<>> /\ sem = 1
  /\ logFd = Lfd /\ files = [f \in Descriptors |-> IF f = Lfd THEN 1 ELSE 0]
  /\ LogFile = 1 /\ size = 0 /\ broken = FALSE /\ stray = FALSE
  /\ mpc = "stat"
  /\ overlap = {} /\ raced = FALSE /\ calls = 0 /\ opens = 0

-----------------------------------------------------------------------------
(* lprintf                                                                 *)

Prepare(t) ==
  /\ lpc[t] = "idle" /\ calls < MaxCalls
  /\ calls' = calls + 1
  /\ fd' = [fd EXCEPT ![t] = logFd]
  /\ \E nl \in BOOLEAN : endsLine' = [endsLine EXCEPT ![t] = nl]
  /\ lpc' = [lpc EXCEPT ![t] = "head"]
  /\ overlap' = IF Formatting = {} THEN overlap \ {t} ELSE overlap \cup Formatting \cup {t}
  /\ UNCHANGED <<line, sem, logFd, files, LogFile, size, broken, stray, mpc, raced, opens>>

Format(t, from, to, text) ==
  /\ lpc[t] = from
  /\ line' = text
  /\ lpc' = [lpc EXCEPT ![t] = to]
  /\ UNCHANGED <<fd, endsLine, sem, logFd, files, LogFile, size, broken, stray, mpc,
                 overlap, raced, calls, opens>>

\* The date and the level.
DateAndLevel(t) == Format(t, "head", "body", <<<<"head", t>>>>)

\* The message, after the bytes that the date and the level took.
Body(t) ==
  Format(t, "body", "end",
         <<line[1], <<"body", t>>>> \o (IF endsLine[t] THEN <<<<"LF">>>> ELSE <<>>))

\* chomp, and the line end.  A line that fills the buffer would have its line end behind
\* the buffer (log.c:74): lines are shorter here.
chomp(s) == IF s[Len(s)] = <<"LF">> THEN SubSeq(s, 1, Len(s) - 1) ELSE s
LineEnd(t) == Format(t, "end", "wait", chomp(line) \o <<<<"CR">>, <<"LF">>>>)

\* Mutant: the semaphore is not waited for.
WaitNot(t) ==
  /\ lpc[t] = "wait"
  /\ lpc' = [lpc EXCEPT ![t] = "write"]
  /\ UNCHANGED <<fd, endsLine, line, sem, logFd, files, LogFile, size, broken, stray,
                 mpc, overlap, raced, calls, opens>>

Wait(t) ==
  /\ lpc[t] = "wait" /\ sem > 0
  /\ sem' = sem - 1
  /\ lpc' = [lpc EXCEPT ![t] = "write"]
  /\ UNCHANGED <<fd, endsLine, line, logFd, files, LogFile, size, broken, stray,
                 mpc, overlap, raced, calls, opens>>

WholeLine(t) == <<<<"head", t>>, <<"body", t>>, <<"CR">>, <<"LF">>>>

Write(t) ==
  /\ lpc[t] = "write"
  /\ lpc' = [lpc EXCEPT ![t] = "post"]
  /\ size' = IF files[fd[t]] = LogFile THEN size + 1 ELSE size
  /\ stray' = (stray \/ files[fd[t]] # LogFile)
  /\ broken' = (broken \/ (t \notin overlap /\ line # WholeLine(t)))
  /\ UNCHANGED <<fd, endsLine, line, sem, logFd, files, LogFile, mpc, overlap, raced,
                 calls, opens>>

Post(t) ==
  /\ lpc[t] = "post"
  /\ lpc' = [lpc EXCEPT ![t] = "idle"]
  /\ sem' = sem + 1
  /\ UNCHANGED <<fd, endsLine, line, logFd, files, LogFile, size, broken, stray, mpc,
                 overlap, raced, calls, opens>>

lprintf(t) == DateAndLevel(t) \/ Body(t) \/ LineEnd(t) \/ Wait(t) \/ Write(t) \/ Post(t)

-----------------------------------------------------------------------------
(* LogManage                                                               *)

Manages(from, to) ==
  /\ mpc = from /\ mpc' = to
  /\ UNCHANGED <<lpc, fd, endsLine, line, broken, stray, overlap, raced, calls, opens>>

\* stat finds the file longer than LOG_MAX.
TooLong == size > LogMax /\ Manages("stat", "wait") /\ UNCHANGED <<sem, logFd, files, LogFile, size>>

WaitToChange ==
  /\ sem > 0 /\ sem' = sem - 1
  /\ Manages("wait", "close")
  /\ UNCHANGED <<logFd, files, LogFile, size>>

CloseOld ==
  /\ files' = [files EXCEPT ![logFd] = 0]
  /\ Manages("close", "open")
  /\ UNCHANGED <<sem, logFd, LogFile, size>>

\* CreatLogName gives a new name; open makes the file, or fails.  Then log_close
\* waits for the semaphore that LogManage itself holds: "log_close" has no next step.
OpenNew ==
  \/ /\ LogFile' = LogFile + 1 /\ size' = 0
     /\ logFd' = Lowest(files)
     /\ files' = [files EXCEPT ![Lowest(files)] = LogFile + 1]
     /\ Manages("open", "post")
     /\ UNCHANGED sem
  \/ /\ LogFile' = LogFile + 1
     /\ Manages("open", "log_close")
     /\ UNCHANGED <<sem, logFd, files, size>>

PostChanged ==
  /\ sem' = sem + 1
  /\ Manages("post", "stat")
  /\ UNCHANGED <<logFd, files, LogFile, size>>

LogManage == TooLong \/ WaitToChange \/ CloseOld \/ OpenNew \/ PostChanged

-----------------------------------------------------------------------------
(* Another thread opens a descriptor: accept, socket                       *)

OpenElsewhere ==
  /\ opens < MaxOpens
  /\ opens' = opens + 1
  /\ files' = [files EXCEPT ![Lowest(files)] = -1]
  /\ raced' = (raced \/ mpc = "open")
  /\ UNCHANGED <<lpc, fd, endsLine, line, sem, logFd, LogFile, size, broken, stray,
                 mpc, overlap, calls>>

LogNext == (\E t \in Callers : Prepare(t) \/ lprintf(t)) \/ LogManage \/ OpenElsewhere

\* The semaphore reaches each waiting thread in the end.
LogFair == (\A t \in Callers : SF_logVars(lprintf(t))) /\ SF_logVars(LogManage)

-----------------------------------------------------------------------------
(* Properties                                                              *)

LogTypeOK ==
  /\ sem \in 0..1 /\ logFd \in Descriptors /\ LogFile \in 1..(MaxCalls + 2)
  /\ \A f \in Descriptors : files[f] \in -1..(MaxCalls + 2)

\* A line goes to the log although its writer read the descriptor long before it
\* got the semaphore and the file may have been changed since (log.c:51, 76-77,
\* 139-149): the new file gets the number of the old one, unless another thread
\* took it in between.
LinesReachTheLog == stray => raced

\* A call whose formatting no other call overlapped writes its own line, ended once
\* whether or not its message had a line end.  The static line is formatted before
\* the semaphore is taken, so no more than this holds (log.c:44, 64-76).
AloneIsWhole == ~broken

\* Every call comes back, whatever the change of file does at the same time, unless
\* the new file could not be opened: LogManage then waits for itself in log_close and
\* every thread that logs waits with it (log.c:143-147).
CallsReturn == \A t \in Callers : lpc[t] = "head" ~> (lpc[t] = "idle" \/ mpc = "log_close")
=============================================================================
