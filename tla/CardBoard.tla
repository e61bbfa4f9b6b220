------------------------------ MODULE CardBoard ------------------------------
(***************************************************************************)
(* RFID/card: the programs of the cards V1.0, V1.1 src-m8 and V1.1 src-48pa at    *)
(* the grain of their interrupt.  INT1 reads a packet and sets flag; the main     *)
(* loop answers, clears flag, arms the radio and puts the processor to sleep.     *)
(* Card is src-48pa in one step each; here a packet may come between any two      *)
(* steps of the loop, and it may be anybody's: a gateway's or another card's.     *)
(*                                                                         *)
(* A packet is [head, len, tag, number]: tag stands for bytes 2 and 3, number     *)
(* for bytes 4 and 5.  The radio is external.                                 *)
(***************************************************************************)
EXTENDS Integers

CONSTANTS
  Kinds,      \* of "v10", "m8", "pa48"
  Air,        \* the packets that are sent around the card
  nId,        \* its number
  AllCards,   \* 65535
  MaxHeard    \* bound on the packets of a behaviour

VARIABLES
  kind, bpc,
  flag, len, rBuf,   \* set by the interrupt
  enabled,           \* INT1 is
  tBuf,              \* the answer
  answered,          \* the last packet sent
  \* seen from outside:
  due,       \* the tags of the requests that were for this card
  owed,      \* a request woke the card, and nothing came after it
  raced,     \* a packet came while the processor was awake
  swapped,   \* one came between the look at a request and the copy of its tag
  heard

ghosts == <<due, raced, swapped, heard>>
cardVars == <<kind, bpc, flag, len, rBuf, enabled, tBuf, answered, owed, ghosts>>

\* Heads: FE asks, FC answers; a card V1.0 answers with FE.
ASK == 254
ANSWER == 252
Nothing == [head |-> 0, len |-> 0, tag |-> 0, number |-> 0]

BoardInit ==
  /\ kind \in Kinds
  /\ bpc = "asleep" /\ flag = FALSE /\ len = 0 /\ rBuf = Nothing /\ enabled = TRUE
  /\ tBuf = [head |-> IF kind = "v10" THEN ASK ELSE ANSWER,
             len |-> IF kind = "v10" THEN 2 ELSE 7, tag |-> 0, number |-> nId]
  /\ answered = Nothing /\ owed = FALSE
  /\ due = {} /\ raced = FALSE /\ swapped = FALSE /\ heard = 0

-----------------------------------------------------------------------------
(* The interrupt                                                           *)

\* Mutant: the head is not looked at.
ReadAnyHead(p) ==
  [len |-> p.len,
   buf |-> CASE kind = "v10" /\ p.len \in 1..15 -> p
             [] kind # "v10" /\ p.len \in 6..15 -> p
             [] OTHER -> rBuf]

\* A7139_ReadFIFO: a packet of another head has length 0; the buffer takes nothing
\* of a length above 15, and of a V1.1 card no tag of a packet of two bytes.
ReadFIFO(p) ==
  [len |-> IF p.head = ASK THEN p.len ELSE 0,
   buf |-> CASE p.head = ASK /\ kind = "v10" /\ p.len \in 1..15 -> p
             [] p.head = ASK /\ kind # "v10" /\ p.len \in 6..15 -> p
             [] OTHER -> rBuf]

\* Is the packet one that this card answers?
ForMe(p) ==
  /\ p.head = ASK
  /\ IF kind = "v10" THEN p.len = 2 ELSE p.len = 7 /\ p.number \in {nId, AllCards}

\* INT1 also wakes the processor.
Hear(p) ==
  /\ enabled /\ heard < MaxHeard
  /\ heard' = heard + 1
  /\ len' = ReadFIFO(p).len /\ rBuf' = ReadFIFO(p).buf
  /\ flag' = TRUE
  /\ bpc' = IF bpc = "asleep" THEN "top" ELSE bpc
  /\ due' = IF ForMe(p) THEN due \cup {p.tag} ELSE due
  /\ owed' = (bpc = "asleep" /\ ForMe(p))
  /\ raced' = (raced \/ bpc # "asleep")
  /\ swapped' = (swapped \/ bpc = IF kind = "v10" THEN "copy" ELSE "mask")
  /\ UNCHANGED <<kind, enabled, tBuf, answered>>

-----------------------------------------------------------------------------
(* The main loop                                                           *)

Goto(from, to) == bpc = from /\ bpc' = to
Still == UNCHANGED <<kind, ghosts>>

\* After a thousand rounds without a packet the processor sleeps again.
Top ==
  /\ \/ flag /\ Goto("top", "look")
     \/ ~flag /\ Goto("top", "sleep")
  /\ Still /\ UNCHANGED <<flag, len, rBuf, enabled, tBuf, owed, answered>>

\* The length and the number, which is read at once: the high byte is 0 but in
\* AllCards.
Look ==
  /\ bpc = "look"
  /\ bpc' = CASE kind = "v10" /\ len = 2 -> "copy"
              [] kind # "v10" /\ len = 7 /\ rBuf.number = nId -> "mask"
              [] kind # "v10" /\ len = 7 /\ rBuf.number = AllCards -> "maskAll"
              [] OTHER -> "clear"
  /\ Still /\ UNCHANGED <<flag, len, rBuf, enabled, tBuf, owed, answered>>

\* DIS_EXTI0 and the delay of the card.
Mask ==
  /\ bpc \in {"mask", "maskAll"}
  /\ bpc' = IF kind # "v10" /\ bpc = "mask" THEN "copy" ELSE "send"
  /\ enabled' = FALSE
  /\ Still /\ UNCHANGED <<flag, len, rBuf, tBuf, owed, answered>>

\* A V1.0 card copies before it turns the interrupt off, the others after it; what
\* everybody is asked leaves the tag of the last answer.
Copy ==
  /\ Goto("copy", IF kind = "v10" THEN "mask" ELSE "send")
  /\ tBuf' = [tBuf EXCEPT !.tag = rBuf.tag]
  /\ Still /\ UNCHANGED <<flag, len, rBuf, enabled, owed, answered>>

Send ==
  /\ Goto("send", "deaf")
  /\ answered' = tBuf
  /\ owed' = FALSE
  /\ Still /\ UNCHANGED <<flag, len, rBuf, enabled, tBuf>>

\* The delays end: ENA_EXTI0.
HearAgain ==
  /\ Goto("deaf", "clear")
  /\ enabled' = TRUE
  /\ Still /\ UNCHANGED <<flag, len, rBuf, tBuf, owed, answered>>

Clear ==
  /\ Goto("clear", "arm")
  /\ flag' = FALSE
  /\ Still /\ UNCHANGED <<len, rBuf, enabled, tBuf, owed, answered>>

\* WOR_ByPreamble, whether the oscillator could be calibrated or not, and CMD_RX.
Arm ==
  /\ Goto("arm", "sleep")
  /\ Still /\ UNCHANGED <<flag, len, rBuf, enabled, tBuf, owed, answered>>

\* SetSleep, whatever flag is by now.
SetSleep ==
  /\ Goto("sleep", "asleep")
  /\ Still /\ UNCHANGED <<flag, len, rBuf, enabled, tBuf, owed, answered>>

BoardMain == Top \/ Look \/ Mask \/ Copy \/ Send \/ HearAgain \/ Clear \/ Arm \/ SetSleep
BoardNext == BoardMain \/ \E p \in Air : Hear(p)

BoardSpec == BoardInit /\ [][BoardNext]_cardVars
BoardFair == WF_cardVars(BoardMain)

-----------------------------------------------------------------------------
(* Properties                                                              *)

BoardTypeOK ==
  /\ bpc \in {"asleep", "top", "look", "copy", "mask", "maskAll", "send", "deaf", "clear",
              "arm", "sleep"}
  /\ enabled = (bpc \notin {"send", "deaf"} /\ (bpc = "copy" => kind = "v10"))
  /\ tBuf.head = ASK => kind = "v10"

\* What a card answers with are the bytes of a request for it, its own number's or
\* the last one's before everybody was asked, never those of a card's answer nor of
\* a packet whose length is wrong, but when a packet comes between the look at the
\* request and the copy (card/V1.1/src-48pa main.c:110-119, src-m8 main.c:127-136,
\* V1.0 main.c:111-119).
AnswerIsDue == answered # Nothing /\ answered.tag # 0 => answered.tag \in due \/ swapped

\* The processor goes to sleep on a packet it has not looked at only when the packet
\* came after it had looked (src-48pa main.c:108-162).
SleepsOnNothing == bpc = "asleep" /\ flag => raced

\* A request that wakes the card is answered, and the card hears again after it
\* (src-48pa main.c:111-153).
AnswersAndHears == owed \/ ~enabled ~> ~owed /\ enabled
=============================================================================
