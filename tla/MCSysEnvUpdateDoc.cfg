CONSTANTS
  n1 = n1
  n2 = n2
  n3 = n3
  ret = ret
  nop = nop
  Absent = Absent
  Torn = Torn
  Nothing = Nothing
  Name = {n1, n2, n3}
  Code = {ret, nop}
  MutationProbability = 100
  LifeSlope = 2
  LifeOffset = 1
  Word = 16
  Tail0 <- InitTail
  MaxFitness = 2
  EvalResults = {1}
  Colonies <- InitColonies
  Stores <- RetStores
  Visitors <- NoVisitors
  StartData = 0
  MaxDna = 2
  MaxMatter = 3
  MaxData = 1
  MaxKills = 0
SPECIFICATION Live
PROPERTIES SuppliedIsListed
