------------------------------- MODULE GisBox -------------------------------
(***************************************************************************)
(* GIS/PCB/AUTO/NOGPS/V1.1/SRC/GDE0213B1/main.c: the box starts its GSM modem,  *)
(* tells it the server, restarts it and asks for its number, with which it      *)
(* registers.  The receive interrupt stores what the modem says, timer 2 ends a *)
(* frame after a silence, timer 1 gives the request up after 20 seconds.        *)
(*                                                                         *)
(* A frame is a sequence of the modem's messages; a text is found in it with    *)
(* kmp.  Of the modem only its answers are modelled.  The box of the source      *)
(* never comes out of GetMac (see MacIsRead): its main loop behind it, and the   *)
(* reports of timer 0 that are enabled there, never run.                       *)
(***************************************************************************)
EXTENDS Integers, Sequences, SequencesExt

CONSTANTS
  MaxSaid    \* bounds what the modem says unasked

VARIABLES
  bpc,                      \* where the main program waits
  again,                    \* InitGSM was called by GetMac
  U0Buf, U0Count, U0Ready,  \* the frame: messages, bytes, ended
  t2, tmask, T1Count,       \* timer 2 runs; the overflow interrupts enabled; ticks of timer 1
  macReady,
  queue,                    \* the modem's answers to come
  mode,                     \* of the modem: "cmd", "data"
  said

boxVars == <<bpc, again, U0Buf, U0Count, U0Ready, t2, tmask, T1Count, macReady, queue, mode, said>>

\* The bytes of a message with its line ends.
MsgLen == [POWERON |-> 13, OK |-> 6, CONNECT |-> 11, GSN |-> 25, CLOSED |-> 10]
TwentySeconds == 5     \* ticks of timer 1; T1Count is not counted further here

BoxInit ==
  /\ bpc = "poweron" /\ again = FALSE
  /\ U0Buf = <<>> /\ U0Count = 0 /\ U0Ready = FALSE
  /\ t2 = FALSE /\ tmask = {} /\ T1Count = 0
  /\ macReady = FALSE
  /\ queue = <<"POWERON">> /\ mode = "cmd" /\ said = 0

-----------------------------------------------------------------------------
(* Interrupts                                                              *)

\* The bytes of a message follow each other too fast for timer 2.  The count begins
\* anew when it has passed 24, and the frame is overwritten from its start.
Receive(m) ==
  /\ U0Count' = (U0Count + MsgLen[m]) % 25
  /\ U0Buf' = IF U0Count = 0 THEN <<m>>
              ELSE IF U0Count + MsgLen[m] > 24 THEN <<"rest">>
              ELSE Append(U0Buf, m)
  /\ t2' = TRUE /\ tmask' = tmask \cup {"T2"}

\* Timer 2 overflows.  T2_OFF means to clear TOIE2, but the mask ~1<<TOIE2 is 0x80:
\* the interrupts of the other timers are disabled with it.
FrameEnds ==
  /\ t2 /\ "T2" \in tmask
  /\ U0Ready' = TRUE
  /\ t2' = FALSE /\ tmask' = {}
  /\ UNCHANGED <<bpc, again, U0Buf, U0Count, T1Count, macReady, queue, mode, said>>

T1Tick ==
  /\ "T1" \in tmask /\ T1Count < TwentySeconds
  /\ T1Count' = T1Count + 1
  /\ UNCHANGED <<bpc, again, U0Buf, U0Count, U0Ready, t2, tmask, macReady, queue, mode, said>>

-----------------------------------------------------------------------------
(* The modem                                                               *)

\* It carries out a command, which in data mode is sent to the server instead.
Answers(command) ==
  CASE mode = "data" /\ command = "+++" -> <<"OK">>
    [] mode = "data"                    -> <<>>
    [] command = "RESTART"              -> <<"OK", "POWERON">>
    [] command = "GET_MAC"              -> <<"GSN">>
    [] command \in {"CON_SER", "SAVE"}  -> <<"OK">>
    [] OTHER                            -> <<>>
ModeAfter(command) == CASE command = "+++" -> "cmd" [] command = "ATO" -> "data" [] OTHER -> mode
Send(command) == queue' = queue \o Answers(command) /\ mode' = ModeAfter(command)

ModemSpeaks ==
  /\ queue # <<>>
  /\ Receive(Head(queue)) /\ queue' = Tail(queue)
  /\ UNCHANGED <<bpc, again, U0Ready, T1Count, macReady, mode, said>>

\* The link to the server comes up or breaks.
LinkChanges ==
  /\ bpc = "mac" /\ queue = <<>> /\ said < MaxSaid
  /\ said' = said + 1
  /\ mode' = IF mode = "cmd" THEN "data" ELSE "cmd"
  /\ queue' = IF mode = "cmd" THEN <<"CONNECT">> ELSE <<"CLOSED">>
  /\ UNCHANGED <<bpc, again, U0Buf, U0Count, U0Ready, t2, tmask, T1Count, macReady>>

-----------------------------------------------------------------------------
(* The main program                                                        *)

FrameHas(m) == m \in Range(U0Buf)
ClearU0Buf ==
  /\ U0Buf' = IF U0Count = 0 THEN U0Buf ELSE <<>>    \* U0Count bytes are cleared
  /\ U0Ready' = FALSE /\ U0Count' = 0

\* Mutant: a frame without the text is not taken out of the buffer.
PowerConfirKeeps ==
  /\ bpc \in {"poweron", "restart"} /\ U0Ready /\ U0Buf = <<"POWERON">>
  /\ ClearU0Buf
  /\ bpc' = IF bpc = "poweron" THEN "con" ELSE "mac"
  /\ queue' = queue \o <<"OK">>
  /\ UNCHANGED <<again, t2, tmask, T1Count, macReady, mode, said>>

\* PowerConfir, and what follows it: InitGSM begins, or ends.  After a first InitGSM
\* GetMac asks for the number; its own goes on waiting.
PowerConfir ==
  /\ bpc \in {"poweron", "restart"} /\ U0Ready
  /\ ClearU0Buf
  /\ IF ~FrameHas("POWERON") THEN UNCHANGED <<bpc, again, queue, mode, tmask, T1Count>>
     ELSE IF bpc = "poweron"
       THEN bpc' = "con" /\ Send("CON_SER") /\ UNCHANGED <<again, tmask, T1Count>>
     ELSE /\ bpc' = "mac" /\ again' = FALSE
          /\ IF again THEN T1Count' = 0 /\ UNCHANGED <<queue, mode, tmask>>
                      ELSE Send("GET_MAC") /\ tmask' = tmask \cup {"T1"} /\ UNCHANGED T1Count
  /\ UNCHANGED <<t2, macReady, said>>

\* WaitBack takes any frame for the answer.
WaitBack ==
  /\ bpc \in {"con", "save", "cmd", "reset"} /\ U0Ready
  /\ ClearU0Buf
  /\ CASE bpc = "con"   -> bpc' = "save" /\ Send("SAVE")
       [] bpc = "save"  -> bpc' = "restart" /\ Send("RESTART")
       [] bpc = "cmd"   -> bpc' = "mac" /\ Send("GET_MAC")
       [] bpc = "reset" -> bpc' = "con" /\ Send("CON_SER")
  /\ UNCHANGED <<again, t2, tmask, T1Count, macReady, said>>

\* The number is a frame of 25 bytes.
GetMac ==
  /\ bpc = "mac" /\ U0Ready
  /\ IF FrameHas("CONNECT")
       THEN bpc' = "cmd" /\ Send("+++") /\ UNCHANGED <<macReady, U0Buf, U0Count>> /\ U0Ready' = U0Ready
       ELSE /\ macReady' = (U0Count = 25)
            /\ bpc' = IF U0Count = 25 THEN "registered" ELSE "mac"
            /\ ClearU0Buf
            /\ UNCHANGED <<queue, mode>>
  /\ UNCHANGED <<again, t2, tmask, T1Count, said>>

\* Twenty seconds have passed: the modem is brought to command mode, with ATO and, from
\* data mode, +++, which it answers, and started anew.
GetMacGivesUp ==
  /\ bpc = "mac" /\ ~U0Ready /\ T1Count >= TwentySeconds
  /\ bpc' = "reset" /\ again' = TRUE
  /\ queue' = queue \o <<"OK">> /\ mode' = "cmd"
  /\ UNCHANGED <<U0Buf, U0Count, U0Ready, t2, tmask, T1Count, macReady, said>>

BoxMain == PowerConfir \/ WaitBack \/ GetMac \/ GetMacGivesUp
BoxNext == BoxMain \/ FrameEnds \/ T1Tick \/ ModemSpeaks \/ LinkChanges
BoxFair == WF_boxVars(BoxMain) /\ WF_boxVars(FrameEnds) /\ WF_boxVars(ModemSpeaks) /\ WF_boxVars(T1Tick)

-----------------------------------------------------------------------------
(* Properties                                                              *)

\* The modem is configured and asked for its number, however its answers fall together
\* into frames and whichever frame is taken for which answer (main.c:233-268).
ReachesGetMac == <>(bpc = "mac")

\* After an answer of 25 bytes the count is not 25 but 0 (main.c:111): the number is not
\* recognised, and as the end of its frame has disabled timer 1 no time passes any more.
\* The code's own aim is "get mac address" and, failing it, a new start in "20S"
\* (main.c:276, 300): each 25 bytes are followed by one of the two.
MacIsRead == (U0Buf = <<"GSN">> /\ bpc = "mac") ~> (macReady \/ bpc = "reset")
=============================================================================
