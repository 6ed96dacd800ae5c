CONSTANTS
  n1 = n1
  n2 = n2
  n3 = n3
  n4 = n4
  ret = ret
  nop = nop
  sys = sys
  Absent = Absent
  Name = {n1, n2, n3}
  Code = {ret, sys, nop}
  MutationProbability = 100
  LifeSlope = 2
  LifeOffset = 1
  Word = 16
  Tail0 <- ExitTail
  Colonies <- ExitColonies
  Stores <- PoorStores
  Visitors <- ExitVisitors
  MaxDna = 4
  MaxMatter = 6
SYMMETRY Others
SPECIFICATION Spec
INVARIANTS TypeOK TailIntact BodyNearDna ListSound NameAvailable
PROPERTIES SpeciesKept MatterBalances
