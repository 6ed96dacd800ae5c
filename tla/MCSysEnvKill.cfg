CONSTANTS
  n1 = n1
  n2 = n2
  n3 = n3
  ret = ret
  nop = nop
  Absent = Absent
  Torn = Torn
  Nothing = Nothing
  Name = {n1, n2, n3}
  Code = {ret, nop}
  MutationProbability = 100
  LifeSlope = 2
  LifeOffset = 1
  Word = 4
  Tail0 <- InitTail
  MaxFitness = 2
  EvalResults = {2, 3}
  Colonies <- InitColonies
  Stores <- NoStores
  Visitors <- IncrVisitors
  StartData = 0
  MaxDna = 2
  MaxMatter = 2
  MaxData = 1
  MaxKills = 1
SPECIFICATION Live
INVARIANTS TornFiles TornBlocks FoundersLeft
PROPERTIES StopObeyed Mortal UpdateServed
