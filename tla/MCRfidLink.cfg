\* Two cards, an air that loses packets, a host that asks one at a time.
SPECIFICATION Spec
CONSTANTS
  c1 = c1  c2 = c2
  Id <- TwoCards
  Broadcast = Broadcast
  None = None
INVARIANTS TimersFollowScan ReportIsWanted
PROPERTIES RequestIsAnswered
