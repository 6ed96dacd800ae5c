CONSTANTS
  a = a
  b = b
  c = c
  d = d
  e = e
  u = u
  ret = ret
  nop = nop
  Absent = Absent
  Torn = Torn
  Nothing = Nothing
  Code = {ret, nop}
  DrawnName = {a, b, c, d, e}
  UserName = {u}
  Shelves <- TwoFiles
  Holdings <- OneEach
  MaxFiles = 2
  MaxKills = 2
  MaxAdds = 1
SPECIFICATION Live
INVARIANTS Fresh BrokenFiles BrokenBlocks
PROPERTIES Implements PutEnds
