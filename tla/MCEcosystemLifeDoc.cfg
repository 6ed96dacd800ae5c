CONSTANTS
  n1 = n1
  n2 = n2
  n3 = n3
  n4 = n4
  ret = ret
  nop = nop
  sys = sys
  Absent = Absent
  Name = {n1, n2, n3, n4}
  Code = {ret, nop}
  MutationProbability = 100
  LifeSlope = 2
  LifeOffset = 1
  Word = 16
  Tail0 <- NoTail
  Colonies <- BareColonies
  Stores <- SmallStores
  Visitors <- NoVisitors
  MaxDna = 3
  MaxMatter = 5
SPECIFICATION Spec
INVARIANTS LifeProportional
