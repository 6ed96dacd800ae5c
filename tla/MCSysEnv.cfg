CONSTANTS
  n1 = n1
  n2 = n2
  n3 = n3
  ret = ret
  nop = nop
  Absent = Absent
  Torn = Torn
  Nothing = Nothing
  Name = {n1, n2, n3}
  Code = {ret, nop}
  MutationProbability = 100
  LifeSlope = 2
  LifeOffset = 1
  Word = 4
  Tail0 <- NoTail
  MaxFitness = 2
  EvalResults = {2, 3}
  Colonies <- EmptyColonies
  Stores <- NoStores
  Visitors <- IncrVisitors
  StartData = 1
  MaxDna = 2
  MaxMatter = 3
  MaxData = 1
  MaxKills = 0
SYMMETRY Others
SPECIFICATION Spec
INVARIANTS TodoExists GrowthPace ListReady
PROPERTIES DataBalances Implements
