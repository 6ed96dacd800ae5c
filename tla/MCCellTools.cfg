CONSTANTS
  Absent = Absent
  Torn = Torn
  Nothing = Nothing
  Life = 2
  ArgCounts = {0, 2}
  MaxFitness = 1
  Byte = 3
  Edits <- AnyEdits
  MaxData = 1
  MaxTurns = 2
SPECIFICATION Spec
INVARIANTS TornIsBusy EveryTurnCounts
PROPERTIES AbortByEdit
