CONSTANTS
  young = young
  old = old
  ret = ret
  nop = nop
  Attr = {young, old}
  Codon = {ret, nop}
  Code = {ret, nop}
  AttrSize = 2
  CodonSize = 2
  BufSize = 3
  Versions <- SmallVersions
  Failed = Failed
  Nothing = Nothing
  MayKill = TRUE
SPECIFICATION Spec
INVARIANTS LoadSound SavedWhole
