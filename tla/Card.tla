-------------------------------- MODULE Card --------------------------------
(***************************************************************************)
(* RFID/card/V1.1/src-48pa/main.c: a card sleeps until its radio wakes it      *)
(* with a packet of a gateway, answers if it was asked, and is deaf for some    *)
(* seconds.  A packet that arrives while the main loop re-arms the radio is      *)
(* lost, as is one the radio misses: hearing is never certain.              *)
(***************************************************************************)
CONSTANTS
  CardId,      \* the cards, each its own number nId
  AnyNumber,   \* what may stand in a request's number: a card's or AllCards
  AllCards     \* 65535, which every card answers

VARIABLES
  cpc,   \* the main loop of each card
  rId    \* the number in its receive buffer

CardInit ==
  /\ cpc = [c \in CardId |-> "sleep"]
  /\ rId = [c \in CardId |-> AllCards]

\* INT1: a request wakes the cards of C.
CardsHear(C, k) ==
  /\ cpc' = [c \in CardId |-> IF c \in C THEN "awake" ELSE cpc[c]]
  /\ rId' = [c \in CardId |-> IF c \in C THEN k ELSE rId[c]]

\* The interrupt is off while a card answers and stays deaf.
Listening == {c \in CardId : cpc[c] = "sleep"}

NotAsked(c) ==
  /\ cpc[c] = "awake" /\ rId[c] \notin {c, AllCards}
  /\ cpc' = [cpc EXCEPT ![c] = "sleep"]
  /\ UNCHANGED rId

Asked(c) ==
  /\ cpc[c] = "awake" /\ rId[c] \in {c, AllCards}
  /\ cpc' = [cpc EXCEPT ![c] = "answer"]
  /\ UNCHANGED rId

Answer(c) ==
  /\ cpc[c] = "answer"
  /\ cpc' = [cpc EXCEPT ![c] = "deaf"]
  /\ UNCHANGED rId

\* The delays end: 2, 23 or 26 seconds and more.
HearAgain(c) ==
  /\ cpc[c] = "deaf"
  /\ cpc' = [cpc EXCEPT ![c] = "sleep"]
  /\ UNCHANGED rId

CardTypeOK ==
  /\ cpc \in [CardId -> {"sleep", "awake", "answer", "deaf"}]
  /\ rId \in [CardId -> AnyNumber]
=============================================================================
