------------------------------ MODULE RfidLink ------------------------------
(***************************************************************************)
(* A gateway (Gateway) and the cards in its reach (Card) over an air that     *)
(* loses packets or breaks them off, with another gateway in the neighbourhood *)
(* that asks cards too.  A radio hears only while it listens, so a packet is    *)
(* sent and heard in one step.                                             *)
(***************************************************************************)
EXTENDS Gateway

VARIABLES cpc, rId

INSTANCE Card WITH CardId <- Id, AnyNumber <- Number, AllCards <- Broadcast

cards == <<cpc, rId>>
vars == <<gatewayVars, cards>>

Init == GatewayInit /\ CardInit

\* Any of the cards that listen hear the request.
AskCards == Ask /\ \E C \in SUBSET Listening : CardsHear(C, tBuf.id)

\* The answer is lost, or heard to its end, or only its start is heard.
CardAnswers(c) ==
  /\ Answer(c)
  /\ \/ UNCHANGED gatewayVars
     \/ \E p \in {c, None} : PacketStarts(p) \/ PacketAgain(p)

\* Another gateway asks, or noise looks like a packet's start.
OtherGateway ==
  \/ (\E C \in SUBSET Listening, k \in Number : CardsHear(C, k)) /\ UNCHANGED gatewayVars
  \/ PacketStarts(None) /\ UNCHANGED cards

CardStep(c) ==
  \/ CardAnswers(c)
  \/ (NotAsked(c) \/ Asked(c) \/ HearAgain(c)) /\ UNCHANGED gatewayVars

Next ==
  \/ (MainStep \/ HandlerStep) /\ UNCHANGED cards
  \/ AskCards
  \/ \E c \in Id : CardStep(c)
  \/ OtherGateway

SafeSpec == Init /\ [][Next]_vars

\* The main loop runs and timers that run overflow.  The cards, the air and
\* the host owe nothing.
Spec ==
  /\ SafeSpec
  /\ WF_vars(MainStep /\ UNCHANGED cards)
  /\ WF_vars(AskCards)
  /\ WF_vars(ChangeTurn /\ UNCHANGED cards)
  /\ WF_vars(EndSearch /\ UNCHANGED cards)

-----------------------------------------------------------------------------
TypeOK == GatewayTypeOK /\ CardTypeOK
=============================================================================
