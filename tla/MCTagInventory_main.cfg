\* 32-bit unsigned long; no two tags share a home slot.
SPECIFICATION Spec
CONSTANTS
  t1 = t1  t2 = t2
  NoId = NoId
  Id <- TwoTags
  Slot <- FourSlots
  Home <- HomesApart
  LastAnt = 1
  Answers <- SomeAnswers
  WideLong = FALSE
  MaxLine = 4
INVARIANTS ReportsAlternate ShownIsCurrent DeletedIsGone TablesAgree TagOfItsAntenna
